---- MODULE Spec2Model ----
(***************************************************************************)
(* A state-machine model of the Zendesk bulk ticket export:                *)
(*   src/zendesk_api/monitoring.py      usage tracker and user cache       *)
(*   src/export_monthly_tickets_bulk.py listing, users, comment fetching,  *)
(*                                      formatting and the orchestrator    *)
(* Each component has its own specification (SpecTracker, SpecCache, ...)  *)
(* over the same variables; SpecRun composes them as run_async_export does.*)
(***************************************************************************)
EXTENDS Integers, Sequences, FiniteSets, TLC

VARIABLES
    \* ---- monitoring.py: usage tracker
    api_calls,              \* api_calls: category -> count
    api_timing,             \* api_timing: category -> sequence of durations
    start_time,             \* timed_api_call: start_time of each wrapped operation
    recorded,               \* how often each wrapper has called track_api_call
    tracker_op,             \* the last call made to the tracker, with its arguments
    writer,                 \* caller -> its position inside track_api_call
    now,                    \* the wall clock, time.time(), in seconds
    \* ---- monitoring.py: user cache
    cache_file,             \* user_cache.json: [exists, data: key string -> identity]
    timestamp_file,         \* user_cache_timestamp.txt: [exists, value]
    user_cache,             \* user_cache (module global)
    user_cache_timestamp,   \* user_cache_timestamp (module global)
    save_pc,                \* position inside save_user_cache
    cache_op,               \* the cache operation that ran last
    persisted,              \* what the saves have written to the two files so far,
                            \* and whether the last one ran to its end (complete)
    loads,                  \* load_user_cache calls that returned since the last save (up to 2)
    \* ---- the upstream API
    issued,                 \* request -> how often it was issued
    ticket_pages,           \* the listing endpoint's pages, in cursor order
    user_pages,             \* the user-listing endpoint's pages, in cursor order
    bulk_resp,              \* the show_many endpoint's answer to each group
    detail_resp,            \* ticket id -> the ticket-detail endpoint's answer
    comments_resp,          \* ticket id -> the comments endpoint's answer
    created,                \* ticket id -> the ticket's created_at upstream
    \* ---- retrieve_tickets
    lst_pc, lst_page, all_tickets, lst_result,
    lst_params,             \* the query of the listing being fetched
    lst_calls,              \* the calls made so far: [start_date, end_date, returned, tickets]
    \* ---- get_all_users
    use_cache, usr_pc, usr_page, all_users, user_map,
    \* ---- get_bulk_ticket_comments
    ticket_ids, bulk_pc, bulk_i, bulk_result,
    \* ---- process_tickets_in_parallel and its process_ticket_batch_async tasks
    tickets, par_pc, par_i, task, processed_tickets,
    \* ---- run_async_export
    run_pc, auth_result, skip_report, csv_file, report_printed, summary_printed

trackerVars == <<api_calls, api_timing, start_time, recorded, tracker_op, writer>>
cacheVars == <<cache_file, timestamp_file, user_cache, user_cache_timestamp,
               save_pc, cache_op, persisted, loads>>
upstreamVars == <<ticket_pages, user_pages, bulk_resp, detail_resp, comments_resp,
                  created>>
lstVars == <<lst_pc, lst_page, all_tickets, lst_result, lst_params, lst_calls>>
usrVars == <<use_cache, usr_pc, usr_page, all_users, user_map>>
bulkVars == <<ticket_ids, bulk_pc, bulk_i, bulk_result>>
parVars == <<tickets, par_pc, par_i, task, processed_tickets>>
runVars == <<run_pc, auth_result, skip_report, csv_file, report_printed,
             summary_printed>>
vars == <<trackerVars, now, cacheVars, issued, upstreamVars, lstVars, usrVars,
          bulkVars, parVars, runVars>>

(***************************************************************************)
(* Bounds of the model.                                                    *)
(***************************************************************************)
\* how many track_api_call calls SpecTracker follows
MaxCalls == 3
\* the largest duration a tracked call is given in SpecTracker
MaxDuration == 1
\* the clock takes the values within MaxSlack seconds of 0 and of the expiry
MaxSlack == 1
\* the most pages the listing and the user-listing endpoints answer with
MaxPages == 2
\* the number of tickets SpecParallel processes
NumTickets == 11

(***************************************************************************)
(* Usage tracker (monitoring.py).                                          *)
(***************************************************************************)
Categories ==
    {"authentication", "ticket_listing", "ticket_details", "ticket_comments",
     "users", "other", "total"}

\* every category string the program passes to timed_api_call, the keys of
\* api_calls themselves, and one string that is no key
CategoryArgs ==
    Categories \cup {"ticket_comments_bulk", "ticket_processing_bulk", "unlisted"}

Durations == 0..MaxDuration

InitCalls == [k \in Categories |-> 0]
InitTiming == [k \in Categories |-> <<>>]

RECURSIVE SumSeq(_)
SumSeq(s) == IF s = <<>> THEN 0 ELSE Head(s) + SumSeq(Tail(s))

RECURSIVE SumOver(_, _)
SumOver(f, S) ==
    IF S = {} THEN 0
    ELSE LET k == CHOOSE x \in S : TRUE IN f[k] + SumOver(f, S \ {k})

MinSeq(s) == CHOOSE x \in {s[i] : i \in DOMAIN s} : \A i \in DOMAIN s : x <= s[i]
MaxSeq(s) == CHOOSE x \in {s[i] : i \in DOMAIN s} : \A i \in DOMAIN s : x >= s[i]

\* track_api_call: the bucket the first branch writes to
TrackedBucket(calls, category) ==
    IF category \in DOMAIN calls THEN category ELSE "other"

\* track_api_call: api_calls after the call
TrackCalls(calls, category) ==
    LET c == TrackedBucket(calls, category)
        first == [calls EXCEPT ![c] = @ + 1]
    IN  [first EXCEPT !["total"] = @ + 1]

\* track_api_call: api_timing after the call
TrackTiming(calls, timing, category, t) ==
    LET c == TrackedBucket(calls, category)
        first == [timing EXCEPT ![c] = Append(@, t)]
    IN  [first EXCEPT !["total"] = Append(@, t)]

\* get_api_usage_report; the average is kept as the fraction <<sum, count>> it
\* is the quotient of, and is <<0, 1>> (zero) when there are no timings
get_api_usage_report ==
    [calls  |-> [k \in DOMAIN api_calls |-> api_calls[k]],
     timing |-> [k \in DOMAIN api_timing |->
                  LET v == api_timing[k] IN
                  [total   |-> SumSeq(v),
                   average |-> IF v # <<>> THEN <<SumSeq(v), Len(v)>> ELSE <<0, 1>>,
                   min     |-> IF v # <<>> THEN MinSeq(v) ELSE 0,
                   max     |-> IF v # <<>> THEN MaxSeq(v) ELSE 0,
                   count   |-> Len(v)]]]

\* tracker_op is [name, category, t, cleared]: the function called last and,
\* for track_api_call, its two arguments, for reset_api_tracking, the number
\* of timings it cleared
NoTrackerOp == [name |-> "none", category |-> "", t |-> 0, cleared |-> 0]

\* the callers of track_api_call that may run at the same time
Writers == {"w1", "w2"}

\* a caller is [pc, category, t, read]: pc is "idle", the statement of
\* track_api_call it is about to run, or "returned"; read is the count it has
\* loaded for the "+= 1" it is in
IdleWriter == [pc |-> "idle", category |-> "", t |-> 0, read |-> 0]

\* a call of track_api_call(category, execution_time)
track_api_call(category, t) ==
    /\ api_calls' = TrackCalls(api_calls, category)
    /\ api_timing' = TrackTiming(api_calls, api_timing, category, t)
    /\ tracker_op' = [name |-> "record", category |-> category, t |-> t, cleared |-> 0]
    /\ UNCHANGED writer

\* a reset that zeroes the counters and keeps the timings
reset_counters_only ==
    /\ api_calls' = [k \in DOMAIN api_calls |-> 0]
    /\ UNCHANGED api_timing
    /\ tracker_op' = [name |-> "reset", category |-> "", t |-> 0,
                      cleared |-> Len(api_timing["total"])]
    /\ UNCHANGED writer

\* reset_api_tracking
reset_api_tracking ==
    /\ api_calls' = [k \in DOMAIN api_calls |-> 0]
    /\ api_timing' = [k \in DOMAIN api_timing |-> <<>>]
    /\ tracker_op' = [name |-> "reset", category |-> "", t |-> 0,
                      cleared |-> Len(api_timing["total"])]
    /\ UNCHANGED writer

(***************************************************************************)
(* User cache (monitoring.py).                                             *)
(***************************************************************************)
\* Python's None, as the placeholder key of the user map and as the unset
\* user_cache_timestamp; user ids are positive and times are not negative
None == 0 - 1

USER_CACHE_EXPIRY == 24 * 60 * 60

Sentinel == [name |-> "Unknown User", email |-> "unknown@example.com"]

\* {None: {"name": "Unknown User", "email": "unknown@example.com"}}
SentinelOnly == [k \in {None} |-> Sentinel]

\* strings that are dict keys in the JSON file are sequences of characters
Digits == <<"0", "1", "2", "3", "4", "5", "6", "7", "8", "9">>
NoneStr == <<"N", "o", "n", "e">>

\* str(n) for an int n >= 0
RECURSIVE IntToStr(_)
IntToStr(n) ==
    IF n < 10 THEN <<Digits[n + 1]>>
    ELSE Append(IntToStr(n \div 10), Digits[(n % 10) + 1])

DigitVal(c) == CHOOSE d \in 0..9 : Digits[d + 1] = c

\* int(s) for a string of decimal digits
RECURSIVE StrToInt(_)
StrToInt(s) ==
    IF Len(s) = 1 THEN DigitVal(s[1])
    ELSE 10 * StrToInt(SubSeq(s, 1, Len(s) - 1)) + DigitVal(s[Len(s)])

\* str(k) in save_user_cache
StrOfKey(k) == IF k = None THEN NoneStr ELSE IntToStr(k)

\* int(k) if k != "None" else None, in load_user_cache
KeyOfStr(s) == IF s # NoneStr THEN StrToInt(s) ELSE None

\* save_user_cache: str_cache = {str(k): v for k, v in cache.items()}
EncodeCache(cache) ==
    [s \in {StrOfKey(k) : k \in DOMAIN cache} |->
        cache[CHOOSE k \in DOMAIN cache : StrOfKey(k) = s]]

\* a conversion that keeps the integer keys and leaves the "None" key out
DecodeIntegerKeys(data) ==
    [k \in {KeyOfStr(s) : s \in DOMAIN data \ {NoneStr}} |->
        data[CHOOSE s \in DOMAIN data : KeyOfStr(s) = k]]

\* load_user_cache: {int(k) if k != "None" else None: v for k, v in str_cache.items()}
DecodeCache(data) ==
    [k \in {KeyOfStr(s) : s \in DOMAIN data} |->
        data[CHOOSE s \in DOMAIN data : KeyOfStr(s) = k]]

\* A file is [exists, its content, whole]; whole is FALSE when the write that
\* made it was cut short (open(..., "w") truncates, the text never arrived in
\* full), and what such a file holds is neither JSON nor a number.
NoData == [s \in {} |-> Sentinel]
AbsentCacheFile == [exists |-> FALSE, data |-> NoData, whole |-> TRUE]
AbsentTimestampFile == [exists |-> FALSE, value |-> 0, whole |-> TRUE]
TornCacheFile == [exists |-> TRUE, data |-> NoData, whole |-> FALSE]
TornTimestampFile == [exists |-> TRUE, value |-> 0, whole |-> FALSE]

\* load_user_cache, line 105: "user_cache_timestamp and time.time() - ... < EXPIRY"
\* (a float is true when it is not 0.0)
CacheNotExpired(ts, t) == ts # 0 /\ t - ts < USER_CACHE_EXPIRY

\* load_user_cache: whether it raises; float() of line 102 does on a torn
\* timestamp file, json.load of line 109 on a torn cache file that is read
LoadRaises(cf, tf, t) ==
    /\ cf.exists /\ tf.exists
    /\ \/ ~tf.whole
       \/ CacheNotExpired(tf.value, t) /\ ~cf.whole

\* load_user_cache: whether it returns the file's mapping
LoadHits(cf, tf, t) ==
    /\ cf.exists /\ tf.exists
    /\ CacheNotExpired(tf.value, t)

\* load_user_cache: the mapping returned (and assigned to user_cache)
LoadedCache(cf, tf, t) ==
    IF LoadHits(cf, tf, t) THEN DecodeCache(cf.data) ELSE SentinelOnly

\* load_user_cache: user_cache_timestamp after the call
LoadedTimestamp(cf, tf, t) ==
    IF LoadHits(cf, tf, t) THEN tf.value ELSE None

\* a load that uses the cache file up
load_user_cache_once ==
    /\ user_cache' = LoadedCache(cache_file, timestamp_file, now)
    /\ user_cache_timestamp' = LoadedTimestamp(cache_file, timestamp_file, now)
    /\ cache_op' = "load"
    /\ loads' = IF loads < 2 THEN loads + 1 ELSE loads
    /\ cache_file' = AbsentCacheFile
    /\ UNCHANGED <<timestamp_file, save_pc, persisted>>

\* load_user_cache(); when it raises, user_cache keeps its value and
\* user_cache_timestamp has the value read if line 102 was passed
load_user_cache ==
    /\ IF LoadRaises(cache_file, timestamp_file, now)
       THEN /\ UNCHANGED user_cache
            /\ user_cache_timestamp' = IF timestamp_file.whole THEN timestamp_file.value
                                       ELSE user_cache_timestamp
            /\ cache_op' = "load_raised"
            /\ loads' = 0
       ELSE /\ user_cache' = LoadedCache(cache_file, timestamp_file, now)
            /\ user_cache_timestamp' = LoadedTimestamp(cache_file, timestamp_file, now)
            /\ cache_op' = "load"
            /\ loads' = IF loads < 2 THEN loads + 1 ELSE loads
    /\ UNCHANGED <<cache_file, timestamp_file, save_pc, persisted>>

\* save_user_cache, lines 132-136: the cache file is written
WrittenCacheFile(cache) == [exists |-> TRUE, data |-> EncodeCache(cache), whole |-> TRUE]

\* save_user_cache, lines 139-141: the timestamp file is written
WrittenTimestampFile(t) == [exists |-> TRUE, value |-> t, whole |-> TRUE]

\* persisted is [saved, mapping, saved_at, pending, previous]: whether a save
\* has completed, the mapping last written in full to the cache file, the time
\* last written to the timestamp file, the mapping of the save begun last and
\* the mapping the cache file held before that save began.

\* save_user_cache(cache), both writes
save_user_cache(cache) ==
    /\ cache_file' = WrittenCacheFile(cache)
    /\ user_cache_timestamp' = now
    /\ timestamp_file' = WrittenTimestampFile(now)
    /\ cache_op' = "save"
    /\ persisted' = [saved |-> TRUE, mapping |-> cache, saved_at |-> now,
                     pending |-> cache, previous |-> persisted.mapping,
                     complete |-> TRUE]
    /\ loads' = 0
    /\ UNCHANGED <<user_cache, save_pc>>

\* save_user_cache(cache), first write
save_user_cache_begin(cache) ==
    /\ save_pc = "idle"
    /\ cache_file' = WrittenCacheFile(cache)
    /\ save_pc' = "timestamp"
    /\ cache_op' = "save_begin"
    /\ persisted' = [persisted EXCEPT !.pending = cache, !.mapping = cache,
                                      !.previous = persisted.mapping,
                                      !.complete = FALSE]
    /\ loads' = 0
    /\ UNCHANGED <<timestamp_file, user_cache, user_cache_timestamp>>

\* save_user_cache(cache), second write
save_user_cache_end ==
    /\ save_pc = "timestamp"
    /\ user_cache_timestamp' = now
    /\ timestamp_file' = WrittenTimestampFile(now)
    /\ save_pc' = "idle"
    /\ cache_op' = "save"
    /\ persisted' = [persisted EXCEPT !.saved_at = now, !.saved = TRUE,
                                      !.complete = TRUE]
    /\ UNCHANGED <<cache_file, user_cache, loads>>

\* save_user_cache(cache) is cut short during its first write (lines 135-136):
\* the cache file is left torn, the timestamp file as it was
save_user_cache_cut_in_cache_write(cache) ==
    /\ save_pc = "idle"
    /\ cache_file' = TornCacheFile
    /\ cache_op' = "save_cut"
    /\ persisted' = [persisted EXCEPT !.pending = cache, !.previous = persisted.mapping,
                                      !.complete = FALSE]
    /\ loads' = 0
    /\ UNCHANGED <<timestamp_file, user_cache, user_cache_timestamp, save_pc>>

\* save_user_cache is cut short between its two writes (after line 136)
save_user_cache_cut_between_writes ==
    /\ save_pc = "timestamp"
    /\ save_pc' = "idle"
    /\ cache_op' = "save_cut"
    /\ UNCHANGED <<cache_file, timestamp_file, user_cache, user_cache_timestamp,
                   persisted, loads>>

\* save_user_cache is cut short during its second write (lines 140-141)
save_user_cache_cut_in_timestamp_write ==
    /\ save_pc = "timestamp"
    /\ user_cache_timestamp' = now
    /\ timestamp_file' = TornTimestampFile
    /\ save_pc' = "idle"
    /\ cache_op' = "save_cut"
    /\ UNCHANGED <<cache_file, user_cache, persisted, loads>>


(***************************************************************************)
(* Users of the upstream user-listing endpoint and the map built from them *)
(* (get_all_users, lines 270-277).                                         *)
(***************************************************************************)
\* a key that is absent from a JSON object
Missing == "<missing>"

UserRecords ==
    {[id |-> 1, name |-> "Ann", email |-> "ann@example.com"],
     [id |-> 12, name |-> Missing, email |-> Missing],
     [id |-> None, name |-> "Nobody", email |-> "nobody@example.com"]}

UserIds == {u.id : u \in UserRecords} \ {None}

\* f'user_{user_id}@example.com'
PlaceholderEmail(id) ==
    CASE id = 1 -> "user_1@example.com"
      [] id = 12 -> "user_12@example.com"
      [] OTHER -> "user_@example.com"

MapPut(m, k, v) == [x \in DOMAIN m \cup {k} |-> IF x = k THEN v ELSE m[x]]

\* lines 272-277: one user of all_users added to user_map
AddUser(m, u) ==
    IF u.id # None /\ u.id # 0
    THEN MapPut(m, u.id,
                [name  |-> IF u.name # Missing THEN u.name ELSE "Unknown",
                 email |-> IF u.email # Missing THEN u.email
                           ELSE PlaceholderEmail(u.id)])
    ELSE m

\* lines 271-277: the loop over all_users
RECURSIVE BuildUserMap(_, _)
BuildUserMap(m, us) ==
    IF us = <<>> THEN m ELSE BuildUserMap(AddUser(m, Head(us)), Tail(us))

\* the user maps a run can build and save
UserSeqs ==
    {<<>>} \cup {<<u>> : u \in UserRecords}
           \cup {<<u, v>> : u \in UserRecords, v \in UserRecords}
Mappings == {BuildUserMap(SentinelOnly, us) : us \in UserSeqs}


(***************************************************************************)
(* timed_api_call (monitoring.py, lines 62-83): the wrapper of an          *)
(* operation notes the start time on entry and, in its finally clause,     *)
(* calls track_api_call with the elapsed time.                             *)
(***************************************************************************)
Ops ==
    {"test_authentication", "retrieve_tickets", "get_all_users",
     "get_bulk_ticket_comments", "process_tickets_in_parallel"}

\* the category each operation is decorated with
CategoryOf(op) ==
    CASE op = "test_authentication" -> "authentication"
      [] op = "retrieve_tickets" -> "ticket_listing"
      [] op = "get_all_users" -> "users"
      [] op = "get_bulk_ticket_comments" -> "ticket_comments_bulk"
      [] op = "process_tickets_in_parallel" -> "ticket_processing_bulk"

\* wrapper, line 75
WrapperEnter(op) == start_time' = [start_time EXCEPT ![op] = now]

\* wrapper, lines 79-81; started is the start_time of this invocation
WrapperExit(op, started) ==
    /\ track_api_call(CategoryOf(op), now - started)
    /\ recorded' = [recorded EXCEPT ![op] = @ + 1]

\* a step of a wrapped operation that neither enters nor leaves it
NoTracking == UNCHANGED trackerVars

\* a request sent to the upstream API
Issue(req) ==
    issued' = IF req \in DOMAIN issued THEN [issued EXCEPT ![req] = @ + 1]
              ELSE MapPut(issued, req, 1)

NoRequests == [r \in {} |-> 0]

(***************************************************************************)
(* Date ranges (export_monthly_tickets_bulk.py, lines 79-105).  A datetime *)
(* is in UTC and whole seconds; a date text is the sequence of the numbers *)
(* it spells out.                                                          *)
(***************************************************************************)
DateTime(y, m, d, h, mi, s) ==
    [year |-> y, month |-> m, day |-> d, hour |-> h, minute |-> mi, second |-> s]

IsLeap(year) == year % 4 = 0 /\ (year % 100 # 0 \/ year % 400 = 0)

\* calendar.monthrange(year, month)[1]
DaysInMonth(year, month) ==
    CASE month = 2 -> IF IsLeap(year) THEN 29 ELSE 28
      [] month \in {4, 6, 9, 11} -> 30
      [] OTHER -> 31

\* get_previous_month_range() when now() gives current_date
get_previous_month_range(current_date) ==
    LET year == IF current_date.month = 1 THEN current_date.year - 1
                ELSE current_date.year
        month == IF current_date.month = 1 THEN 12 ELSE current_date.month - 1
        last_day == DaysInMonth(year, month)
    IN  [start_date |-> DateTime(year, month, 1, 0, 0, 0),
         end_date   |-> DateTime(year, month, last_day, 23, 59, 59)]

\* datetime.isoformat(): "YYYY-MM-DDTHH:MM:SS+00:00"
isoformat(d) == <<d.year, d.month, d.day, d.hour, d.minute, d.second>>

\* strftime("%Y-%m-%d")
strftime_date(d) == <<d.year, d.month, d.day>>

(***************************************************************************)
(* retrieve_tickets (export_monthly_tickets_bulk.py, lines 108-188).       *)
(* A listed ticket is modelled by its id; NoId is a ticket without 'id'.   *)
(***************************************************************************)
NoId == 0

\* a query made of the two dates without their time of day
RequestParamsDatesOnly(start_date, end_date) ==
    [created_after |-> strftime_date(start_date),
     created_before |-> strftime_date(end_date)]

\* lines 137-141 (per_page is left out)
RequestParams(start_date, end_date) ==
    [created_after |-> isoformat(start_date),
     created_before |-> isoformat(end_date)]

\* The listing endpoint.  It reads a date text as an instant, a text without
\* a time of day as midnight, and answers with the tickets created from
\* created_after to created_before, both included; the cursor of a further
\* page keeps the query (line 163 empties params).
InstantOf(text) == IF Len(text) = 3 THEN text \o <<0, 0, 0>> ELSE text

\* instant a is not later than instant b
NotAfter(a, b) ==
    \/ a = b
    \/ \E i \in 1..6 : a[i] < b[i] /\ \A j \in 1..(i - 1) : a[j] = b[j]

CreatedWithin(t, params) ==
    /\ NotAfter(InstantOf(params.created_after), created[t])
    /\ NotAfter(created[t], InstantOf(params.created_before))

PageTickets(page, params) ==
    SelectSeq(page.tickets, LAMBDA t : CreatedWithin(t, params))

\* a listing that hands back what it fetched before the failure
RetrieveOnFailureKeepsPages(fetched) == fetched

\* except branch, lines 186-188
RetrieveOnFailure(fetched) == <<>>

\* lines 145-169: whether the loop goes on after page p answered
HasNextPage(pages, p) == p < Len(pages)

\* the call: lines 125-143
retrieve_tickets_call(start_date, end_date) ==
    /\ lst_pc # "fetch"
    /\ lst_pc' = "fetch"
    /\ lst_page' = 1
    /\ all_tickets' = <<>>
    /\ lst_params' = RequestParams(start_date, end_date)
    /\ lst_calls' = Append(lst_calls, [start_date |-> start_date, end_date |-> end_date,
                                       returned |-> FALSE, tickets |-> <<>>])
    /\ UNCHANGED lst_result
    /\ WrapperEnter("retrieve_tickets")
    /\ UNCHANGED <<api_calls, api_timing, recorded, tracker_op, writer>>
    /\ UNCHANGED <<now, cacheVars, issued, upstreamVars, usrVars, bulkVars, parVars>>

\* one turn of the while loop, lines 145-169, and the return that follows the
\* last one (lines 171-188) with the wrapper's finally
retrieve_tickets_fetch ==
    /\ lst_pc = "fetch"
    /\ Issue(<<"tickets", lst_page>>)
    /\ LET page == ticket_pages[lst_page]
           fetched == all_tickets \o PageTickets(page, lst_params)
       IN
       IF page.status = "ok" /\ HasNextPage(ticket_pages, lst_page)
       THEN /\ all_tickets' = fetched
            /\ lst_page' = lst_page + 1
            /\ UNCHANGED <<lst_pc, lst_result, lst_calls>>
            /\ NoTracking
       ELSE /\ lst_pc' = "done"
            /\ lst_result' = IF page.status = "ok" THEN fetched
                             ELSE RetrieveOnFailure(all_tickets)
            /\ lst_calls' = [lst_calls EXCEPT ![Len(lst_calls)] =
                                [@ EXCEPT !.returned = TRUE, !.tickets = lst_result']]
            /\ all_tickets' = IF page.status = "ok" THEN fetched ELSE all_tickets
            /\ UNCHANGED lst_page
            /\ WrapperExit("retrieve_tickets", start_time["retrieve_tickets"])
            /\ UNCHANGED start_time
    /\ UNCHANGED lst_params
    /\ UNCHANGED <<now, cacheVars, upstreamVars, usrVars, bulkVars, parVars>>

(***************************************************************************)
(* get_all_users (export_monthly_tickets_bulk.py, lines 214-288).          *)
(***************************************************************************)
\* a cache that is used whatever it holds
CacheAlwaysUsable(cache) == TRUE

\* line 232: the loaded cache is used when it has entries beyond the placeholder
CacheUsable(cache) == Cardinality(DOMAIN cache) > 1

\* the call: lines 226-244
get_all_users_call(uc) ==
    /\ usr_pc = "idle"
    /\ use_cache' = uc
    /\ usr_page' = 1
    /\ all_users' = <<>>
    /\ WrapperEnter("get_all_users")
    /\ IF uc
       THEN /\ load_user_cache
            /\ CASE LoadRaises(cache_file, timestamp_file, now) ->
                       \* line 230 is outside the try: get_all_users raises
                       /\ UNCHANGED user_map
                       /\ usr_pc' = "raised"
                       /\ WrapperExit("get_all_users", now)
                 [] OTHER ->
                       IF CacheUsable(LoadedCache(cache_file, timestamp_file, now))
                       THEN /\ user_map' = LoadedCache(cache_file, timestamp_file, now)
                            /\ usr_pc' = "done"
                            /\ WrapperExit("get_all_users", now)
                       ELSE /\ user_map' = SentinelOnly
                            /\ usr_pc' = "fetch"
                            /\ UNCHANGED <<api_calls, api_timing, recorded, tracker_op, writer>>
       ELSE /\ user_map' = SentinelOnly
            /\ usr_pc' = "fetch"
            /\ UNCHANGED cacheVars
            /\ UNCHANGED <<api_calls, api_timing, recorded, tracker_op, writer>>
    /\ UNCHANGED <<now, issued, upstreamVars, lstVars, bulkVars, parVars>>

\* one turn of the while loop, lines 246-268, and what follows the last one:
\* after the last page or the break on a non-200 answer (lines 254-256) the
\* map is built from all_users and saved (lines 270-284); when the request
\* raises, the except branch returns the map as it is (lines 286-288)
get_all_users_fetch ==
    /\ usr_pc = "fetch"
    /\ Issue(<<"users", usr_page>>)
    /\ LET page == user_pages[usr_page]
           fetched == all_users \o page.users
       IN
       IF page.status = "ok" /\ HasNextPage(user_pages, usr_page)
       THEN /\ all_users' = fetched
            /\ usr_page' = usr_page + 1
            /\ UNCHANGED <<usr_pc, user_map>>
            /\ UNCHANGED cacheVars
            /\ NoTracking
       ELSE /\ usr_pc' = "done"
            /\ UNCHANGED usr_page
            /\ WrapperExit("get_all_users", start_time["get_all_users"])
            /\ UNCHANGED start_time
            /\ IF page.status = "exc"
               THEN /\ UNCHANGED <<all_users, user_map>>
                    /\ UNCHANGED cacheVars
               ELSE /\ all_users' = IF page.status = "ok" THEN fetched ELSE all_users
                    /\ user_map' = BuildUserMap(user_map, all_users')
                    /\ save_user_cache(user_map')
    /\ UNCHANGED use_cache
    /\ UNCHANGED <<now, upstreamVars, lstVars, bulkVars, parVars>>


(***************************************************************************)
(* Comments and format_ticket_for_export (lines 344-415).  A text is the   *)
(* sequence of the strings it is put together from.  Of the exported row   *)
(* the model keeps the id and all_comments.                                *)
(***************************************************************************)
CommentA ==
    [author_id |-> 1, public |-> TRUE, body |-> " first ",
     created_at |-> "2024-05-01T10:00:00Z"]
CommentB ==
    [author_id |-> 77, public |-> FALSE, body |-> "second",
     created_at |-> "2024-05-02T11:00:00Z"]
\* a comment without author_id, public and created_at
CommentC == [body |-> "third\n"]

\* dict.get(key, default)
Get(dict, key, default) == IF key \in DOMAIN dict THEN dict[key] ELSE default

\* str.strip() on the bodies above
Strip(body) ==
    CASE body = " first " -> "first"
      [] body = "third\n" -> "third"
      [] OTHER -> body

\* a tag that does not look at the comment
AlwaysPublic(comment) == "PUBLIC"

\* line 369
CommentType(comment) == IF ~Get(comment, "public", TRUE) THEN "INTERNAL" ELSE "PUBLIC"

\* the separator of line 375, '-' * 40
Dashes == "----------------------------------------"

\* lines 364-376: one formatted comment
FormatComment(comment, umap) ==
    LET author_id == Get(comment, "author_id", None)
        author_info == Get(umap, author_id, umap[None])
        created_at == Get(comment, "created_at", "Unknown date")
        comment_type == CommentType(comment)
        body == Strip(Get(comment, "body", ""))
    IN  <<"[", comment_type, "] ", author_info.name, " (", author_info.email,
          ") - ", created_at, "\n", body, "\n", Dashes, "\n">>

\* "\n".join(formatted_comments)
RECURSIVE JoinLines(_)
JoinLines(blocks) ==
    IF Len(blocks) = 1 THEN blocks[1]
    ELSE blocks[1] \o <<"\n">> \o JoinLines(Tail(blocks))

\* line 390
AllComments(comments, umap) ==
    LET formatted_comments == [i \in 1..Len(comments) |-> FormatComment(comments[i], umap)]
    IN  IF formatted_comments # <<>> THEN JoinLines(formatted_comments)
        ELSE <<"No comments found.">>

format_ticket_for_export(ticket, comments, umap) ==
    [id |-> ticket, all_comments |-> AllComments(comments, umap)]

(***************************************************************************)
(* get_bulk_ticket_comments (lines 291-341).                               *)
(***************************************************************************)
MAX_BATCH_SIZE == 100

Min(a, b) == IF a < b THEN a ELSE b

\* the slice s[i:i + size] of Python, i counted from 0
Slice(s, i, size) == SubSeq(s, i + 1, Min(i + size, Len(s)))

\* how many slices range(0, len(s), size) gives
NumSlices(s, size) == (Len(s) + size - 1) \div size

\* line 306: the b-th group of ids, b counted from 1
IdBatch(ids, b) == Slice(ids, (b - 1) * MAX_BATCH_SIZE, MAX_BATCH_SIZE)

\* lines 331-335: the tickets of one answer merged into result; a ticket with
\* an id is stored under that id, and of two with the same id the later wins
MergeComments(result, answered) ==
    LET stored == {i \in DOMAIN answered : answered[i].id # None /\ answered[i].id # 0}
        ids == {answered[i].id : i \in stored}
        last(id) == CHOOSE i \in stored :
                        /\ answered[i].id = id
                        /\ \A j \in stored : answered[j].id = id => j <= i
    IN  [t \in DOMAIN result \cup ids |->
            IF t \in ids THEN answered[last(t)].comments ELSE result[t]]

NoComments == [t \in {} |-> <<>>]

\* a fetch that gives up what it has when the request for a group fails
BulkOnFailureDropsAll(result) == NoComments

\* lines 336-339: a non-200 answer or an exception leaves result as it is and
\* the loop goes on with the next group
BulkOnFailure(result) == result

\* the call: lines 302-307
get_bulk_ticket_comments_call ==
    /\ bulk_pc = "idle"
    /\ bulk_result' = NoComments
    /\ bulk_i' = 1
    /\ WrapperEnter("get_bulk_ticket_comments")
    /\ IF ticket_ids = <<>>
       THEN /\ bulk_pc' = "done"
            /\ WrapperExit("get_bulk_ticket_comments", now)
       ELSE /\ bulk_pc' = "fetch"
            /\ UNCHANGED <<api_calls, api_timing, recorded, tracker_op, writer>>
    /\ UNCHANGED ticket_ids
    /\ UNCHANGED <<now, cacheVars, issued, upstreamVars, lstVars, usrVars, parVars>>

\* a loop that asks again for a group whose request failed
RetryFailedGroup(response, i) == IF response.status = "ok" THEN i + 1 ELSE i

\* line 309: the for loop goes on to the next group whatever the answer was
NextGroup(response, i) == i + 1

\* one turn of the for loop, lines 309-339, and the return after the last one
get_bulk_ticket_comments_fetch ==
    /\ bulk_pc = "fetch"
    /\ Issue(<<"show_many", bulk_i>>)
    /\ LET response == bulk_resp[bulk_i]
       IN  bulk_result' = IF response.status = "ok"
                          THEN MergeComments(bulk_result, response.tickets)
                          ELSE BulkOnFailure(bulk_result)
    /\ IF bulk_i < NumSlices(ticket_ids, MAX_BATCH_SIZE)
       THEN /\ bulk_i' = NextGroup(bulk_resp[bulk_i], bulk_i)
            /\ UNCHANGED bulk_pc
            /\ NoTracking
       ELSE /\ bulk_pc' = "done"
            /\ UNCHANGED bulk_i
            /\ WrapperExit("get_bulk_ticket_comments", start_time["get_bulk_ticket_comments"])
            /\ UNCHANGED start_time
    /\ UNCHANGED ticket_ids
    /\ UNCHANGED <<now, cacheVars, upstreamVars, lstVars, usrVars, parVars>>


(***************************************************************************)
(* process_ticket_batch_async (lines 418-482): one task per group of       *)
(* tickets.  A task is [pc, k, processed, result]: pc is "created" (the    *)
(* coroutine has not run), "detail" or "comments" (the request for its     *)
(* k-th ticket id is in flight) or "returned".                             *)
(***************************************************************************)
MAX_CONCURRENT_REQUESTS == 5

\* the group size of process_tickets_in_parallel (batch_size, line 504, is 20
\* in the program; the model follows smaller groups)
batch_size == 2

\* line 505: the i-th group of tickets, i counted from 1
TicketBatch(i) == Slice(tickets, (i - 1) * batch_size, batch_size)

\* line 437
TaskIds(i) == SelectSeq(TicketBatch(i), LAMBDA t : t # NoId)

CreatedTask == [pc |-> "created", k |-> 0, processed |-> <<>>, result |-> <<>>]

\* a gather over every task at once
AllTasksAtOnce == DOMAIN task

\* lines 525-526: the tasks gathered together with task par_i + 1
CurrentChunk ==
    {i \in DOMAIN task : par_i < i /\ i <= par_i + MAX_CONCURRENT_REQUESTS}

\* the requests of the tasks that are in flight
InFlight == {i \in DOMAIN task : task[i].pc \in {"detail", "comments"}}

\* except branch, lines 480-482
BatchOnException(processed) == <<>>

\* the task goes on to its next ticket id, or returns (line 479)
TaskAdvance(i, processed) ==
    IF task[i].k < Len(TaskIds(i))
    THEN /\ task' = [task EXCEPT ![i] = [pc |-> "detail", k |-> task[i].k + 1,
                                         processed |-> processed, result |-> <<>>]]
         /\ Issue(<<"detail", TaskIds(i)[task[i].k + 1]>>)
    ELSE /\ task' = [task EXCEPT ![i] = [pc |-> "returned", k |-> task[i].k,
                                         processed |-> processed, result |-> processed]]
         /\ UNCHANGED issued

\* the except branch ends the task
TaskFail(i) ==
    /\ task' = [task EXCEPT ![i] = [pc |-> "returned", k |-> task[i].k,
                                    processed |-> task[i].processed,
                                    result |-> BatchOnException(task[i].processed)]]
    /\ UNCHANGED issued

\* the task starts to run: lines 437-456, up to the first request
task_start(i) ==
    /\ par_pc = "gather"
    /\ i \in CurrentChunk
    /\ task[i].pc = "created"
    /\ TaskAdvance(i, <<>>)
    /\ NoTracking
    /\ UNCHANGED <<tickets, par_pc, par_i, processed_tickets>>
    /\ UNCHANGED <<now, cacheVars, upstreamVars, lstVars, usrVars, bulkVars>>

\* the answer to the ticket-detail request, lines 456-467
task_detail_answer(i) ==
    /\ i \in DOMAIN task
    /\ task[i].pc = "detail"
    /\ LET ticket_id == TaskIds(i)[task[i].k]
           response == detail_resp[ticket_id]
       IN  CASE response.status = "exc" -> TaskFail(i)
             [] response.status = "fail" -> TaskAdvance(i, task[i].processed)
             [] response.status = "ok" ->
                    /\ task' = [task EXCEPT ![i].pc = "comments"]
                    /\ Issue(<<"comments", ticket_id>>)
    /\ NoTracking
    /\ UNCHANGED <<tickets, par_pc, par_i, processed_tickets>>
    /\ UNCHANGED <<now, cacheVars, upstreamVars, lstVars, usrVars, bulkVars>>

\* comments taken from the answer whatever its status
CommentsWhateverStatus(response) == response.comments

\* lines 468-473: the comments of a ticket, [] when the status is not 200
CommentsOf(response) == IF response.status # "ok" THEN <<>> ELSE response.comments

\* the answer to the comments request, lines 467-477
task_comments_answer(i) ==
    /\ i \in DOMAIN task
    /\ task[i].pc = "comments"
    /\ LET ticket_id == TaskIds(i)[task[i].k]
           response == comments_resp[ticket_id]
           comments == CommentsOf(response)
           processed_ticket ==
               format_ticket_for_export(detail_resp[ticket_id].ticket, comments, user_map)
       IN  IF response.status = "exc" THEN TaskFail(i)
           ELSE TaskAdvance(i, Append(task[i].processed, processed_ticket))
    /\ NoTracking
    /\ UNCHANGED <<tickets, par_pc, par_i, processed_tickets>>
    /\ UNCHANGED <<now, cacheVars, upstreamVars, lstVars, usrVars, bulkVars>>

(***************************************************************************)
(* process_tickets_in_parallel (lines 485-535).                            *)
(***************************************************************************)
\* lines 528-529: the results of the gathered tasks, in task order
RECURSIVE ChunkResults(_, _)
ChunkResults(from, to) ==
    IF from > to THEN <<>> ELSE task[from].result \o ChunkResults(from + 1, to)

\* The decorated function is "async def": calling it only creates the
\* coroutine, so the wrapper's try block ends, and its finally clause runs,
\* before the body does (monitoring.py lines 74-81 around line 486).
process_tickets_in_parallel_call(arg) ==
    /\ par_pc = "idle"
    /\ tickets' = arg
    /\ par_pc' = "coroutine"
    /\ WrapperEnter("process_tickets_in_parallel")
    /\ WrapperExit("process_tickets_in_parallel", now)
    /\ UNCHANGED <<par_i, task, processed_tickets>>
    /\ UNCHANGED <<now, cacheVars, issued, upstreamVars, lstVars, usrVars, bulkVars>>

\* the awaited coroutine runs to its first await: lines 500-527
process_tickets_in_parallel_start ==
    /\ par_pc = "coroutine"
    /\ processed_tickets' = <<>>
    /\ par_i' = 0
    /\ IF tickets = <<>>
       THEN /\ par_pc' = "done"
            /\ UNCHANGED task
       ELSE /\ par_pc' = "gather"
            /\ task' = [i \in 1..NumSlices(tickets, batch_size) |-> CreatedTask]
    /\ NoTracking
    /\ UNCHANGED tickets
    /\ UNCHANGED <<now, cacheVars, issued, upstreamVars, lstVars, usrVars, bulkVars>>

\* a gather that returns as soon as one of its tasks has
SomeTaskFinished == \E i \in CurrentChunk : task[i].pc = "returned"

\* line 527: "await asyncio.gather(*batch_tasks)" returns when every task of
\* the chunk has
ChunkFinished == \A i \in CurrentChunk : task[i].pc = "returned"

\* asyncio.gather returns: lines 527-535
process_tickets_in_parallel_merge ==
    /\ par_pc = "gather"
    /\ ChunkFinished
    /\ processed_tickets' =
           processed_tickets
           \o ChunkResults(par_i + 1, Min(par_i + MAX_CONCURRENT_REQUESTS, Len(task)))
    /\ par_i' = par_i + MAX_CONCURRENT_REQUESTS
    /\ par_pc' = IF par_i' < Len(task) THEN "gather" ELSE "done"
    /\ NoTracking
    /\ UNCHANGED <<tickets, task>>
    /\ UNCHANGED <<now, cacheVars, issued, upstreamVars, lstVars, usrVars, bulkVars>>


(***************************************************************************)
(* export_tickets_to_csv (lines 538-563) and run_async_export (589-644).   *)
(***************************************************************************)
NoCsv == [exists |-> FALSE, rows |-> <<>>]

\* export_tickets_to_csv; written tells whether DataFrame.to_csv succeeded
\* (a failure is caught, lines 562-563)
ExportedCsv(rows, written, before) ==
    IF rows = <<>> THEN before
    ELSE IF written THEN [exists |-> TRUE, rows |-> rows] ELSE before

\* a run that goes on whatever test_authentication returned
GoOnAfterAuthentication(ok) == "users"

\* lines 610-612: where the run goes after test_authentication
AfterAuthentication(ok) == IF ok THEN "users" ELSE "exit"

\* a run that ends where it stands when the listing gave no ticket
\* The date of the run and the window it asks for (lines 619-622, in the
\* lastmonth mode); upstream, the tickets the listing endpoint has were all
\* created in that window.
Today == DateTime(2024, 3, 15, 9, 0, 0)
RunWindow == get_previous_month_range(Today)
TicketsOfRunWindow == [t \in 0..3 |-> <<2024, 2, 15, 12, 0, 0>>]

ExitWithoutTickets(listed) == IF listed # <<>> THEN "process_wait" ELSE "exit"

\* lines 630-635: with tickets the run processes and exports them, without it
\* goes straight on to the report
AfterListing(listed) == IF listed # <<>> THEN "process_wait" ELSE "report"

\* lines 596-607
run_start ==
    /\ run_pc = "start"
    /\ reset_api_tracking
    /\ UNCHANGED <<start_time, recorded>>
    /\ \E flag \in BOOLEAN : skip_report' = flag
    /\ run_pc' = "auth"
    /\ UNCHANGED <<auth_result, csv_file, report_printed, summary_printed>>
    /\ UNCHANGED <<now, cacheVars, issued, upstreamVars, lstVars, usrVars, bulkVars, parVars>>

\* lines 609-612, with test_authentication (lines 43-60) and its wrapper
run_authenticate ==
    /\ run_pc = "auth"
    /\ \E is_valid \in BOOLEAN :
          /\ auth_result' = IF is_valid THEN "ok" ELSE "failed"
          /\ run_pc' = AfterAuthentication(is_valid)
    /\ WrapperEnter("test_authentication")
    /\ WrapperExit("test_authentication", now)
    /\ UNCHANGED <<skip_report, csv_file, report_printed, summary_printed>>
    /\ UNCHANGED <<now, cacheVars, issued, upstreamVars, lstVars, usrVars, bulkVars, parVars>>

\* line 615: get_all_users(use_cache=not args.no_cache) is called
run_get_all_users ==
    /\ run_pc = "users"
    /\ \E no_cache \in BOOLEAN : get_all_users_call(~no_cache)
    /\ run_pc' = "users_wait"
    /\ UNCHANGED <<auth_result, skip_report, csv_file, report_printed, summary_printed>>

\* a run that goes on while get_all_users is still fetching
UsersMayStillRun == TRUE

\* line 615: the call of get_all_users is synchronous, the run goes on when
\* it has returned
UsersReturned == usr_pc = "done"

\* lines 617-627: get_all_users has returned, retrieve_tickets is called
run_retrieve_tickets ==
    /\ run_pc = "users_wait"
    /\ UsersReturned
    /\ retrieve_tickets_call(RunWindow.start_date, RunWindow.end_date)
    /\ run_pc' = "list_wait"
    /\ UNCHANGED <<auth_result, skip_report, csv_file, report_printed, summary_printed>>

\* lines 629-632: with tickets, process_tickets_in_parallel is called
run_process ==
    /\ run_pc = "list_wait"
    /\ lst_pc = "done"
    /\ lst_result # <<>>
    /\ process_tickets_in_parallel_call(lst_result)
    /\ run_pc' = AfterListing(lst_result)
    /\ UNCHANGED <<auth_result, skip_report, csv_file, report_printed, summary_printed>>

\* lines 634-635: without tickets there is nothing to process
run_no_tickets ==
    /\ run_pc = "list_wait"
    /\ lst_pc = "done"
    /\ lst_result = <<>>
    /\ run_pc' = AfterListing(lst_result)
    /\ UNCHANGED <<auth_result, skip_report, csv_file, report_printed, summary_printed>>
    /\ UNCHANGED <<trackerVars, now, cacheVars, issued, upstreamVars, lstVars, usrVars,
                   bulkVars, parVars>>

\* line 633: the awaited processing has returned, the rows are exported
run_export ==
    /\ run_pc = "process_wait"
    /\ par_pc = "done"
    /\ \E written \in BOOLEAN :
          csv_file' = ExportedCsv(processed_tickets, written, csv_file)
    /\ run_pc' = "report"
    /\ UNCHANGED <<auth_result, skip_report, report_printed, summary_printed>>
    /\ UNCHANGED <<trackerVars, now, cacheVars, issued, upstreamVars, lstVars, usrVars,
                   bulkVars, parVars>>

\* lines 637-644: the usage report, unless skipped, and the elapsed time
run_report ==
    /\ run_pc = "report"
    /\ report_printed' = ~skip_report
    /\ summary_printed' = TRUE
    /\ run_pc' = "done"
    /\ UNCHANGED <<auth_result, skip_report, csv_file>>
    /\ UNCHANGED <<trackerVars, now, cacheVars, issued, upstreamVars, lstVars, usrVars,
                   bulkVars, parVars>>


(***************************************************************************)
(* Initial values.  At import monitoring.py calls load_user_cache (line    *)
(* 224), so user_cache starts as what that call returns.                   *)
(***************************************************************************)
InitTracker ==
    /\ api_calls = InitCalls
    /\ api_timing = InitTiming
    /\ start_time = [op \in Ops |-> 0]
    /\ recorded = [op \in Ops |-> 0]
    /\ tracker_op = NoTrackerOp
    /\ writer = [w \in Writers |-> IdleWriter]

NothingPersisted ==
    [saved |-> FALSE, mapping |-> SentinelOnly, saved_at |-> 0, pending |-> SentinelOnly,
     previous |-> SentinelOnly, complete |-> FALSE]

\* the files as a completed save_user_cache(m) at time t left them
PersistedAt(m, t) ==
    /\ cache_file = WrittenCacheFile(m)
    /\ timestamp_file = WrittenTimestampFile(t)
    /\ persisted = [saved |-> TRUE, mapping |-> m, saved_at |-> t, pending |-> m,
                    previous |-> m, complete |-> TRUE]

NoFiles ==
    /\ cache_file = AbsentCacheFile
    /\ timestamp_file = AbsentTimestampFile
    /\ persisted = NothingPersisted

\* the module globals after the import
InitCacheGlobals ==
    /\ user_cache = LoadedCache(cache_file, timestamp_file, now)
    /\ user_cache_timestamp = LoadedTimestamp(cache_file, timestamp_file, now)
    /\ save_pc = "idle"
    /\ cache_op = "import"
    /\ loads = 1

InitNoUpstream ==
    /\ created = TicketsOfRunWindow
    /\ ticket_pages = <<>>
    /\ user_pages = <<>>
    /\ bulk_resp = <<>>
    /\ detail_resp = <<>>
    /\ comments_resp = <<>>

NoParams == [created_after |-> <<>>, created_before |-> <<>>]

InitLst ==
    /\ lst_pc = "idle" /\ lst_page = 0 /\ all_tickets = <<>> /\ lst_result = <<>>
    /\ lst_params = NoParams /\ lst_calls = <<>>
InitUsr ==
    /\ use_cache = TRUE /\ usr_pc = "idle" /\ usr_page = 0
    /\ all_users = <<>> /\ user_map = SentinelOnly
InitBulk ==
    ticket_ids = <<>> /\ bulk_pc = "idle" /\ bulk_i = 0 /\ bulk_result = NoComments
InitPar ==
    /\ tickets = <<>> /\ par_pc = "idle" /\ par_i = 0
    /\ task = <<>> /\ processed_tickets = <<>>
InitRun ==
    /\ run_pc = "idle" /\ auth_result = "none" /\ skip_report = FALSE
    /\ csv_file = NoCsv /\ report_printed = FALSE /\ summary_printed = FALSE

(***************************************************************************)
(* SpecTracker: any sequence of track_api_call and reset_api_tracking.     *)
(***************************************************************************)
InitTrackerSpec ==
    /\ InitTracker /\ now = 0 /\ NoFiles /\ InitCacheGlobals /\ issued = NoRequests
    /\ InitNoUpstream /\ InitLst /\ InitUsr /\ InitBulk /\ InitPar /\ InitRun

TrackerRecord ==
    /\ Len(api_timing["total"]) < MaxCalls
    /\ \E category \in CategoryArgs, t \in Durations : track_api_call(category, t)
    /\ UNCHANGED <<start_time, recorded>>
    /\ UNCHANGED <<now, cacheVars, issued, upstreamVars, lstVars, usrVars, bulkVars,
                   parVars, runVars>>

TrackerReset ==
    /\ reset_api_tracking
    /\ UNCHANGED <<start_time, recorded>>
    /\ UNCHANGED <<now, cacheVars, issued, upstreamVars, lstVars, usrVars, bulkVars,
                   parVars, runVars>>

NextTracker == TrackerRecord \/ TrackerReset

SpecTracker == InitTrackerSpec /\ [][NextTracker]_vars


\* C1: after any sequence of track_api_call calls, with any category argument,
\* the count the report gives for "total" equals the sum of the counts it
\* gives for the other categories (both in "calls" and in "timing").
\* The call track_api_call("total", t) refutes it: "total" is a key of
\* api_calls, so line 52 and line 58 both add to it.
C1_TotalIsSumOfOthers ==
    LET report == get_api_usage_report
        others == Categories \ {"total"}
        counts == [k \in Categories |-> report.timing[k].count]
    IN  /\ report.calls["total"] = SumOver(report.calls, others)
        /\ counts["total"] = SumOver(counts, others)


(***************************************************************************)
(* SpecCache: load_user_cache and save_user_cache against the two files,   *)
(* while the clock advances.  The files start absent, as a save left them, *)
(* or with one of the two missing.                                         *)
(***************************************************************************)
ClockValues ==
    (0..MaxSlack) \cup ((USER_CACHE_EXPIRY - MaxSlack)..(USER_CACHE_EXPIRY + MaxSlack))

InitCacheSpec ==
    /\ now \in ClockValues
    /\ \/ NoFiles
       \/ \E m \in Mappings, t \in ClockValues :
             /\ t <= now
             /\ PersistedAt(m, t)
       \/ \E m \in Mappings :
             /\ cache_file = WrittenCacheFile(m)
             /\ timestamp_file = AbsentTimestampFile
             /\ persisted = [NothingPersisted EXCEPT !.mapping = m, !.pending = m]
       \/ \E t \in ClockValues :
             /\ t <= now
             /\ cache_file = AbsentCacheFile
             /\ timestamp_file = WrittenTimestampFile(t)
             /\ persisted = NothingPersisted
    /\ InitCacheGlobals
    /\ InitTracker /\ issued = NoRequests
    /\ InitNoUpstream /\ InitLst /\ InitUsr /\ InitBulk /\ InitPar /\ InitRun

CacheFrame ==
    UNCHANGED <<trackerVars, issued, upstreamVars, lstVars, usrVars, bulkVars,
                parVars, runVars>>

CacheLoad ==
    /\ save_pc = "idle"
    /\ load_user_cache
    /\ UNCHANGED now
    /\ CacheFrame

CacheSaveBegin ==
    /\ \E m \in Mappings : save_user_cache_begin(m)
    /\ UNCHANGED now
    /\ CacheFrame

CacheSaveEnd ==
    /\ save_user_cache_end
    /\ UNCHANGED now
    /\ CacheFrame

CacheSaveCutInCacheWrite ==
    /\ \E m \in Mappings : save_user_cache_cut_in_cache_write(m)
    /\ UNCHANGED now
    /\ CacheFrame

CacheSaveCutBetweenWrites ==
    /\ save_user_cache_cut_between_writes
    /\ UNCHANGED now
    /\ CacheFrame

CacheSaveCutInTimestampWrite ==
    /\ save_user_cache_cut_in_timestamp_write
    /\ UNCHANGED now
    /\ CacheFrame

\* time passes
Tick ==
    /\ \E t \in ClockValues : t > now /\ now' = t
    /\ cache_op' = "tick"
    /\ UNCHANGED <<cache_file, timestamp_file, user_cache, user_cache_timestamp,
                   save_pc, persisted, loads>>
    /\ CacheFrame

NextCache ==
    \/ CacheLoad \/ CacheSaveBegin \/ CacheSaveEnd \/ Tick
    \/ CacheSaveCutInCacheWrite \/ CacheSaveCutBetweenWrites
    \/ CacheSaveCutInTimestampWrite

SpecCache == InitCacheSpec /\ [][NextCache]_vars

\* C6: load_user_cache returns the persisted mapping exactly when both files
\* exist and now - saved_at is strictly below 24 hours, and the mapping with
\* only the placeholder entry otherwise, for every saved_at and every now.
\* A cache saved at time 0.0 refutes it: line 105 tests the timestamp for
\* truth before it compares the age.
C6_LoadReturnsPersistedIffFresh ==
    cache_op = "load" =>
        user_cache =
            IF /\ cache_file.exists /\ timestamp_file.exists
               /\ now - timestamp_file.value < USER_CACHE_EXPIRY
            THEN persisted.mapping
            ELSE SentinelOnly


(***************************************************************************)
(* SpecList: one call of retrieve_tickets against every listing of at most *)
(* MaxPages pages; each page request is answered with status 200 ("ok"),   *)
(* with another status ("fail"), or raises ("exc").                        *)
(***************************************************************************)
PageStatus == {"ok", "fail", "exc"}

RECURSIVE SeqsUpTo(_, _)
\* the sequences over S of lengths 1..n
SeqsUpTo(S, n) ==
    IF n = 0 THEN {}
    ELSE LET shorter == SeqsUpTo(S, n - 1)
         IN  {<<x>> : x \in S} \cup shorter \cup {Append(s, x) : s \in shorter, x \in S}

TicketPages == [status : PageStatus, tickets : {<<>>, <<1>>, <<3, 2>>}]

InitListSpec ==
    /\ created = TicketsOfRunWindow
    /\ ticket_pages \in SeqsUpTo(TicketPages, MaxPages)
    /\ user_pages = <<>> /\ bulk_resp = <<>> /\ detail_resp = <<>> /\ comments_resp = <<>>
    /\ InitTracker /\ now = 0 /\ NoFiles /\ InitCacheGlobals /\ issued = NoRequests
    /\ InitLst /\ InitUsr /\ InitBulk /\ InitPar /\ InitRun

ListCall ==
    /\ lst_pc = "idle"
    /\ retrieve_tickets_call(RunWindow.start_date, RunWindow.end_date)
    /\ UNCHANGED runVars
ListFetch == retrieve_tickets_fetch /\ UNCHANGED runVars

NextList == ListCall \/ ListFetch

SpecList == InitListSpec /\ [][NextList]_vars

\* the tickets of all pages, in upstream order
RECURSIVE ConcatPages(_)
ConcatPages(pages) ==
    IF pages = <<>> THEN <<>> ELSE Head(pages).tickets \o ConcatPages(Tail(pages))

AllPagesOk(pages) == \A p \in DOMAIN pages : pages[p].status = "ok"

\* C5: retrieve_tickets returns the concatenation of all pages in upstream
\* order when every page request succeeds and the empty sequence when any
\* page request is answered with a non-success status or raises: never a
\* non-empty part of the listing (a window without tickets gives <<>>).
C5_ListingAllOrNothing ==
    lst_pc = "done" =>
        lst_result = IF AllPagesOk(ticket_pages) THEN ConcatPages(ticket_pages)
                     ELSE <<>>

\* C5: a listing whose second page fails after a first page with tickets
\* has returned
C5_Witness ==
    /\ lst_pc = "done"
    /\ Len(ticket_pages) = 2
    /\ ticket_pages[1].status = "ok" /\ ticket_pages[1].tickets # <<>>
    /\ ticket_pages[2].status # "ok"
    /\ all_tickets # <<>>


(***************************************************************************)
(* SpecUsers: one call of get_all_users, with and without use_cache,       *)
(* against every user listing of at most MaxPages pages and with the cache *)
(* files absent, fresh or expired.                                         *)
(***************************************************************************)
UserAnn == CHOOSE u \in UserRecords : u.id = 1
UserTwelve == CHOOSE u \in UserRecords : u.id = 12
UserNoId == CHOOSE u \in UserRecords : u.id = None

UserPages == [status : PageStatus, users : {<<>>, <<UserAnn>>, <<UserNoId, UserTwelve>>}]

\* the run starts at time RunTime; a cache saved at FreshTime is fresh then,
\* one saved at ExpiredTime is exactly 24 hours old
RunTime == USER_CACHE_EXPIRY + MaxSlack
FreshTime == USER_CACHE_EXPIRY - MaxSlack
ExpiredTime == RunTime - USER_CACHE_EXPIRY

InitUserFiles ==
    \/ NoFiles
    \/ PersistedAt(BuildUserMap(SentinelOnly, <<UserTwelve>>), FreshTime)
    \/ PersistedAt(BuildUserMap(SentinelOnly, <<UserTwelve>>), ExpiredTime)
    \/ PersistedAt(SentinelOnly, FreshTime)

InitUsersSpec ==
    /\ user_pages \in SeqsUpTo(UserPages, MaxPages)
    /\ created = TicketsOfRunWindow
    /\ ticket_pages = <<>> /\ bulk_resp = <<>> /\ detail_resp = <<>> /\ comments_resp = <<>>
    /\ now = RunTime
    /\ InitUserFiles /\ InitCacheGlobals
    /\ InitTracker /\ issued = NoRequests
    /\ InitLst /\ InitUsr /\ InitBulk /\ InitPar /\ InitRun

UsersCall == (\E uc \in BOOLEAN : get_all_users_call(uc)) /\ UNCHANGED runVars
UsersFetch == get_all_users_fetch /\ UNCHANGED runVars

NextUsers == UsersCall \/ UsersFetch

SpecUsers == InitUsersSpec /\ [][NextUsers]_vars

\* whether a user-listing request was issued and failed
UserFetchFailed ==
    \E p \in DOMAIN user_pages :
        /\ <<"users", p>> \in DOMAIN issued
        /\ user_pages[p].status # "ok"

\* C9: when the user-listing fetch fails on any page (non-success status or
\* exception), get_all_users returns the mapping with only the placeholder
\* entry.  A non-200 answer on the second page refutes it: line 256 leaves
\* the loop, and lines 271-284 build, save and return the map of the users
\* of the pages fetched before.
C9_FailedUserFetchGivesSentinelOnly ==
    (usr_pc = "done" /\ UserFetchFailed) => user_map = SentinelOnly


(***************************************************************************)
(* SpecBulk: one call of get_bulk_ticket_comments for no id, for one       *)
(* group and for more than one group of ids.  A request is answered with   *)
(* status 200 and a list of tickets, with another status, or raises.       *)
(***************************************************************************)
IdRange(n) == [i \in 1..n |-> i]

SeqRange(s) == {s[i] : i \in DOMAIN s}

BulkSizes == {0, 1, 2, MAX_BATCH_SIZE, MAX_BATCH_SIZE + 1}

\* an id the caller did not ask for
ForeignId == 3 * MAX_BATCH_SIZE

\* the comments of ticket id upstream
SampleComments(id) == IF id % 2 = 1 THEN <<CommentA, CommentB>> ELSE <<>>

Answered(batch) ==
    [i \in 1..Len(batch) |-> [id |-> batch[i], comments |-> SampleComments(batch[i])]]

\* the answers the model gives to the request for one group
BulkAnswers(batch) ==
    {[status |-> "fail", tickets |-> <<>>],
     [status |-> "exc", tickets |-> <<>>],
     [status |-> "ok", tickets |-> Answered(batch)],
     [status |-> "ok", tickets |-> Tail(Answered(batch))],
     [status |-> "ok", tickets |-> Append(Answered(batch),
                                          [id |-> ForeignId, comments |-> <<CommentA>>])],
     [status |-> "ok", tickets |-> <<[id |-> None, comments |-> <<>>]>>]}

InitBulkSpec ==
    /\ \E n \in BulkSizes :
          LET ids == IdRange(n)
              groups == 1..NumSlices(ids, MAX_BATCH_SIZE)
              answers == UNION {BulkAnswers(IdBatch(ids, b)) : b \in groups}
          IN  /\ ticket_ids = ids
              /\ bulk_resp \in {f \in [groups -> answers] :
                                  \A b \in groups : f[b] \in BulkAnswers(IdBatch(ids, b))}
    /\ created = TicketsOfRunWindow
    /\ ticket_pages = <<>> /\ user_pages = <<>> /\ detail_resp = <<>> /\ comments_resp = <<>>
    /\ bulk_pc = "idle" /\ bulk_i = 0 /\ bulk_result = NoComments
    /\ InitTracker /\ now = 0 /\ NoFiles /\ InitCacheGlobals /\ issued = NoRequests
    /\ InitLst /\ InitUsr /\ InitPar /\ InitRun

BulkCall == get_bulk_ticket_comments_call /\ UNCHANGED runVars
BulkFetch == get_bulk_ticket_comments_fetch /\ UNCHANGED runVars

NextBulk == BulkCall \/ BulkFetch

SpecBulk == InitBulkSpec /\ [][NextBulk]_vars

\* C10: get_bulk_ticket_comments never returns a key that is not in
\* ticket_ids, for any upstream response, and returns at most as many keys
\* as there are ids.  An answer that holds a ticket nobody asked for refutes
\* it: lines 331-335 store every ticket of the answer under its own id.
C10_BulkKeysAmongIds ==
    bulk_pc = "done" =>
        /\ DOMAIN bulk_result \subseteq SeqRange(ticket_ids)
        /\ Cardinality(DOMAIN bulk_result) <= Len(ticket_ids)


(***************************************************************************)
(* SpecParallel: process_tickets_in_parallel over NumTickets tickets, the  *)
(* tasks of a chunk interleaving at their awaits.  Upstream every request  *)
(* succeeds, or the requests for one ticket go wrong: its detail or its    *)
(* comments request is answered with a non-200 status or raises.           *)
(***************************************************************************)
TicketIds == 1..NumTickets

Faults == {"detail_fail", "detail_exc", "comments_fail", "comments_exc"}

\* the tickets whose requests may go wrong: the first and the last of the
\* first group, and the last ticket
FaultyTickets == {1, batch_size, NumTickets}

DetailAnswers(faulty, fault) ==
    [t \in TicketIds |->
        [status |-> IF t = faulty /\ fault = "detail_fail" THEN "fail"
                    ELSE IF t = faulty /\ fault = "detail_exc" THEN "exc"
                    ELSE "ok",
         ticket |-> t]]

CommentsAnswers(faulty, fault) ==
    [t \in TicketIds |->
        [status   |-> IF t = faulty /\ fault = "comments_fail" THEN "fail"
                      ELSE IF t = faulty /\ fault = "comments_exc" THEN "exc"
                      ELSE "ok",
         comments |-> SampleComments(t)]]

\* the answers of the two per-ticket endpoints: all good (no ticket is ticket
\* 0), or one of the tickets of S is faulty
InitTicketAnswers(S) ==
    \E faulty \in S \cup {0}, fault \in Faults :
        /\ detail_resp = DetailAnswers(faulty, fault)
        /\ comments_resp = CommentsAnswers(faulty, fault)

InitParallelSpec ==
    /\ InitTicketAnswers(FaultyTickets)
    /\ created = TicketsOfRunWindow
    /\ ticket_pages = <<>> /\ user_pages = <<>> /\ bulk_resp = <<>>
    /\ tickets = IdRange(NumTickets)
    /\ par_pc = "idle" /\ par_i = 0 /\ task = <<>> /\ processed_tickets = <<>>
    /\ use_cache = TRUE /\ usr_pc = "done" /\ usr_page = 0 /\ all_users = <<>>
    /\ user_map = BuildUserMap(SentinelOnly, <<UserAnn>>)
    /\ InitTracker /\ now = 0 /\ NoFiles /\ InitCacheGlobals /\ issued = NoRequests
    /\ InitLst /\ InitBulk /\ InitRun

ParallelCall == process_tickets_in_parallel_call(tickets) /\ UNCHANGED runVars
ParallelStart == process_tickets_in_parallel_start /\ UNCHANGED runVars
ParallelMerge == process_tickets_in_parallel_merge /\ UNCHANGED runVars
TaskStart == (\E i \in DOMAIN task : task_start(i)) /\ UNCHANGED runVars
TaskDetailAnswer == (\E i \in DOMAIN task : task_detail_answer(i)) /\ UNCHANGED runVars
TaskCommentsAnswer == (\E i \in DOMAIN task : task_comments_answer(i)) /\ UNCHANGED runVars

NextParallel ==
    \/ ParallelCall \/ ParallelStart \/ ParallelMerge
    \/ TaskStart \/ TaskDetailAnswer \/ TaskCommentsAnswer

SpecParallel == InitParallelSpec /\ [][NextParallel]_vars

\* C4: at every moment of the comment-fetching stage at most
\* MAX_CONCURRENT_REQUESTS network operations are in flight, for every
\* interleaving of the tasks.
C4_AtMostFiveInFlight == Cardinality(InFlight) <= MAX_CONCURRENT_REQUESTS

\* C4: five requests are in flight while a sixth task waits for its chunk
C4_Witness ==
    /\ Cardinality(InFlight) = MAX_CONCURRENT_REQUESTS
    /\ \E i \in DOMAIN task : task[i].pc = "created"


\* whether a request for ticket t goes wrong upstream
TicketFails(t) == detail_resp[t].status # "ok" \/ comments_resp[t].status # "ok"

ExportedIds == {processed_tickets[r].id : r \in DOMAIN processed_tickets}

\* C3: a failure on one ticket (non-success status, timeout or other
\* exception on its detail or comments request) removes at most that ticket:
\* every other ticket of its group is in the output.  A request that raises
\* refutes it: the except branch of lines 480-482 returns [] for the whole
\* group, the tickets processed before included.
C3_OnlyTheFailingTicketIsDropped ==
    par_pc = "done" =>
        \A t \in SeqRange(tickets) : ~TicketFails(t) => t \in ExportedIds


(***************************************************************************)
(* SpecRun: one run of run_async_export, from its first line to its        *)
(* return, over the components above.                                      *)
(***************************************************************************)
RunUserPages ==
    {<<[status |-> "ok", users |-> <<UserAnn>>]>>,
     <<[status |-> "ok", users |-> <<UserAnn>>], [status |-> "fail", users |-> <<>>]>>,
     <<[status |-> "exc", users |-> <<>>]>>}

RunTicketPages ==
    {<<[status |-> "ok", tickets |-> <<1, 2, 3>>]>>,
     <<[status |-> "ok", tickets |-> <<1>>], [status |-> "fail", tickets |-> <<>>]>>,
     <<[status |-> "ok", tickets |-> <<>>]>>}

InitRunSpec ==
    /\ user_pages \in RunUserPages
    /\ created = TicketsOfRunWindow
    /\ ticket_pages \in RunTicketPages
    /\ InitTicketAnswers({1, 2})
    /\ bulk_resp = <<>>
    /\ now = RunTime
    /\ \/ NoFiles
       \/ PersistedAt(BuildUserMap(SentinelOnly, <<UserTwelve>>), FreshTime)
    /\ InitCacheGlobals
    /\ InitTracker /\ issued = NoRequests
    /\ InitLst /\ InitUsr /\ InitBulk /\ InitPar
    /\ run_pc = "start" /\ auth_result = "none" /\ skip_report = FALSE
    /\ csv_file = NoCsv /\ report_printed = FALSE /\ summary_printed = FALSE

NextRun ==
    \/ run_start \/ run_authenticate \/ run_get_all_users \/ run_retrieve_tickets
    \/ run_process \/ run_no_tickets \/ run_export \/ run_report
    \/ UsersFetch \/ ListFetch
    \/ ParallelStart \/ ParallelMerge
    \/ TaskStart \/ TaskDetailAnswer \/ TaskCommentsAnswer

SpecRun == InitRunSpec /\ [][NextRun]_vars

\* the operations run_async_export calls
RunOps == Ops \ {"get_bulk_ticket_comments"}

\* whether the operation has been called and has finished
Finished(op) ==
    CASE op = "test_authentication" -> auth_result # "none"
      [] op = "retrieve_tickets" -> lst_pc = "done"
      [] op = "get_all_users" -> usr_pc = "done"
      [] op = "process_tickets_in_parallel" -> par_pc = "done"

\* C2: every invocation of a wrapped operation causes exactly one
\* track_api_call, made only after the operation has finished; the one for
\* process_tickets_in_parallel is made after its network fetches.  The
\* wrapper around the "async def" refutes it: its finally clause runs when
\* the coroutine is created, before any request of the processing is sent.
C2_RecordedOnceAfterFinishing ==
    \A op \in RunOps : recorded[op] = IF Finished(op) THEN 1 ELSE 0

\* C7: when authentication fails the run ends without another stage: no
\* user-listing, ticket-listing, ticket-detail or comments request is
\* issued, and neither the user cache nor an output file is written.
C7_AuthFailureStopsTheRun ==
    auth_result = "failed" =>
        /\ issued = NoRequests
        /\ usr_pc = "idle" /\ lst_pc = "idle" /\ par_pc = "idle"
        /\ cache_op = "import"
        /\ ~csv_file.exists

\* C7: a run whose authentication failed has ended
C7_Witness == auth_result = "failed" /\ run_pc = "exit"

\* run_async_export has returned
RunEnded == run_pc \in {"done", "exit"}

\* C8: whatever fails in whatever stage, authentication included, the run
\* reaches its final reporting step (the usage report, unless it is skipped,
\* and the elapsed-time summary) before it ends.  A failed authentication
\* refutes it: line 612 returns before lines 637-644.
C8_RunEndsWithReport ==
    RunEnded => (summary_printed /\ (~skip_report => report_printed))

(***************************************************************************)
(* SpecBulkLive: SpecBulk with the call running on to its return.  The     *)
(* function is synchronous and every request has a timeout (line 323), so  *)
(* a started call takes its next step.                                     *)
(***************************************************************************)
SpecBulkLive == InitBulkSpec /\ [][NextBulk]_vars /\ WF_vars(NextBulk)

\* the groups of line 306, one after the other
RECURSIVE ConcatBatches(_, _)
ConcatBatches(ids, b) ==
    IF b = 0 THEN <<>> ELSE ConcatBatches(ids, b - 1) \o IdBatch(ids, b)

BulkGroups == 1..NumSlices(ticket_ids, MAX_BATCH_SIZE)

\* the ids are cut into consecutive groups of at most MAX_BATCH_SIZE, each id
\* in exactly one group
BulkGroupsPartitionIds ==
    /\ ConcatBatches(ticket_ids, NumSlices(ticket_ids, MAX_BATCH_SIZE)) = ticket_ids
    /\ \A b \in BulkGroups : Len(IdBatch(ticket_ids, b)) \in 1..MAX_BATCH_SIZE
    /\ \A id \in SeqRange(ticket_ids) :
          Cardinality({b \in BulkGroups : id \in SeqRange(IdBatch(ticket_ids, b))}) = 1

\* the request for group b was answered with a non-200 status or raised
GroupFailed(b) == bulk_resp[b].status # "ok"

\* the ids of a failed group are absent, what the other groups' answers hold
\* is present
FailedGroupsAreSkipped ==
    bulk_pc = "done" =>
        \A b \in BulkGroups :
            IF GroupFailed(b)
            THEN SeqRange(IdBatch(ticket_ids, b)) \cap DOMAIN bulk_result = {}
            ELSE \A i \in DOMAIN bulk_resp[b].tickets :
                    LET answer == bulk_resp[b].tickets[i]
                    IN  (answer.id # None /\ answer.id # 0) =>
                            /\ answer.id \in DOMAIN bulk_result
                            /\ bulk_result[answer.id] = answer.comments

\* C11: get_bulk_ticket_comments cuts the ids into consecutive groups of at
\* most 100, each id in exactly one group; when the request for a group
\* fails (non-success status or exception) the ids of that group are absent
\* from the result and the results of every other group are present; the
\* call does not raise but returns.
C11_FailedGroupIsSkipped ==
    /\ [](BulkGroupsPartitionIds /\ FailedGroupsAreSkipped)
    /\ <>(bulk_pc = "done")

\* C11: of two groups the first was answered and the second raised; the
\* call returned the first group's comments only
C11_Witness ==
    /\ bulk_pc = "done"
    /\ Len(ticket_ids) > MAX_BATCH_SIZE
    /\ bulk_resp[1].status = "ok" /\ bulk_resp[2].status = "exc"
    /\ 1 \in DOMAIN bulk_result
    /\ ticket_ids[Len(ticket_ids)] \notin DOMAIN bulk_result

(***************************************************************************)
(* SpecRunLive: SpecRun with the run going on to its return.  The event    *)
(* loop runs every coroutine that can run and every request has a timeout  *)
(* (lines 150, 251 and 516), so a step that can be taken is taken.         *)
(***************************************************************************)
SpecRunLive == InitRunSpec /\ [][NextRun]_vars /\ WF_vars(NextRun)

\* retrieve_tickets has returned no ticket
NoTicketsListed == lst_pc = "done" /\ lst_result = <<>>

\* the requests of the comment-fetching stage that were issued
TicketRequests == {r \in DOMAIN issued : r[1] \in {"detail", "comments"}}

\* C12: when the listing yields no ticket (an empty window or a failed
\* listing) the run issues no ticket-detail and no comments request and
\* writes no output row, and it still reaches its end with the usage report
\* (unless skipped) and a ticket_comments count of zero.
C12_NoTicketsStillReports ==
    /\ [](NoTicketsListed =>
            /\ TicketRequests = {}
            /\ ~csv_file.exists /\ csv_file.rows = <<>>
            /\ get_api_usage_report.calls["ticket_comments"] = 0
            /\ RunEnded => /\ run_pc = "done"
                           /\ summary_printed
                           /\ ~skip_report => report_printed)
    /\ (NoTicketsListed ~> run_pc = "done")

\* C12: a run whose listing failed on its second page has ended with the
\* report
C12_Witness ==
    /\ run_pc = "done" /\ NoTicketsListed
    /\ ~AllPagesOk(ticket_pages)
    /\ report_printed /\ summary_printed

(***************************************************************************)
(* C13: when save_user_cache has been cut short, before, between or during *)
(* its two file writes, the next load_user_cache does not fail, and what   *)
(* it returns is the mapping persisted before, the mapping being saved, or *)
(* the mapping with the null sentinel alone.                               *)
(***************************************************************************)
LoadReturnsAWholeMapping ==
    cache_op = "load" =>
        user_cache \in {persisted.previous, persisted.mapping, persisted.pending,
                        SentinelOnly}

C13_LoadSurvivesInterruptedSave ==
    /\ cache_op # "load_raised"
    /\ LoadReturnsAWholeMapping

(***************************************************************************)
(* C14: track_api_call(category, t) adds 1 to the count of exactly one     *)
(* category other than "total" (the given one if it is a key of api_calls, *)
(* "other" if not) and appends t to its timings, adds exactly 1 to the     *)
(* count of "total", and leaves every other category as it was.            *)
(***************************************************************************)
\* the category the statement says is counted
CountedCategory(category) == IF category \in Categories THEN category ELSE "other"

RecordEffect(category, t) ==
    LET c == CountedCategory(category) IN
    /\ c # "total"
    /\ api_calls'[c] = api_calls[c] + 1
    /\ api_timing'[c] = Append(api_timing[c], t)
    /\ api_calls'["total"] = api_calls["total"] + 1
    /\ \A k \in Categories \ {c, "total"} :
          api_calls'[k] = api_calls[k] /\ api_timing'[k] = api_timing[k]

C14_RecordCountsOneCategoryAndTotal ==
    [][tracker_op'.name = "record" =>
          RecordEffect(tracker_op'.category, tracker_op'.t)]_vars

\* the same for the category arguments other than "total"
RecordEffectUnlessTotal ==
    [][tracker_op'.name = "record" /\ tracker_op'.category # "total" =>
          RecordEffect(tracker_op'.category, tracker_op'.t)]_vars

(***************************************************************************)
(* C19: after reset_api_tracking, whatever track_api_call calls came       *)
(* before, the categories are the same seven and get_api_usage_report      *)
(* gives count 0, sum 0, mean 0, min 0 and max 0 for each of them, "total" *)
(* included.                                                               *)
(***************************************************************************)
C19_ResetZeroesEveryCategory ==
    tracker_op.name = "reset" =>
        LET report == get_api_usage_report IN
        /\ DOMAIN report.calls = Categories
        /\ DOMAIN report.timing = Categories
        /\ \A k \in Categories :
              /\ report.calls[k] = 0
              /\ report.timing[k].count = 0
              /\ report.timing[k].total = 0
              /\ report.timing[k].average[1] = 0
              /\ report.timing[k].min = 0
              /\ report.timing[k].max = 0

C19_Witness ==
    /\ tracker_op.name = "reset"
    /\ tracker_op.cleared = MaxCalls
    /\ \A k \in Categories : get_api_usage_report.calls[k] = 0

(***************************************************************************)
(* C15: in process_tickets_in_parallel, when no request raises, a ticket   *)
(* whose detail request is answered 200 and whose comments request is not  *)
(* is exported with all_comments "No comments found."; a ticket whose      *)
(* detail request is answered with another status is not in the output;    *)
(* and every other ticket is exported, with its comments.                  *)
(***************************************************************************)
NoRequestRaises ==
    \A t \in SeqRange(tickets) :
        detail_resp[t].status # "exc" /\ comments_resp[t].status # "exc"

\* the rows of the output that are for ticket t
RowsOf(t) == {r \in DOMAIN processed_tickets : processed_tickets[r].id = t}

C15_StatusFailuresPerTicket ==
    (par_pc = "done" /\ NoRequestRaises) =>
        \A t \in SeqRange(tickets) :
            CASE detail_resp[t].status = "fail" -> RowsOf(t) = {}
              [] comments_resp[t].status = "fail" ->
                    /\ Cardinality(RowsOf(t)) = 1
                    /\ \A r \in RowsOf(t) :
                          processed_tickets[r].all_comments = <<"No comments found.">>
              [] OTHER ->
                    /\ Cardinality(RowsOf(t)) = 1
                    /\ \A r \in RowsOf(t) :
                          processed_tickets[r].all_comments =
                              AllComments(comments_resp[t].comments, user_map)

\* the comments request of a ticket that has comments upstream was answered
\* with a non-200 status, and the ticket is in the output
C15_Witness ==
    /\ par_pc = "done"
    /\ \E t \in SeqRange(tickets) :
          /\ detail_resp[t].status = "ok"
          /\ comments_resp[t].status = "fail"
          /\ comments_resp[t].comments # <<>>
          /\ RowsOf(t) # {}
          /\ Cardinality(ExportedIds) = NumTickets

(***************************************************************************)
(* C16: two calls of load_user_cache with no save_user_cache between them  *)
(* return equal mappings, and load_user_cache leaves the two files as they *)
(* are.  (loads >= 1: a load has returned, with user_cache as its result,  *)
(* and no save has begun since; cache_op' = "load": this step is a load    *)
(* that returns.)                                                          *)
(***************************************************************************)
C16_LoadTwiceGivesEqualMappings ==
    [][(loads >= 1 /\ cache_op' = "load") =>
          /\ user_cache' = user_cache
          /\ UNCHANGED <<cache_file, timestamp_file>>]_vars

\* whether the earlier load returned the file's mapping: lines 110-111 leave
\* the time read in user_cache_timestamp, line 115 resets it
EarlierLoadHit == user_cache_timestamp # None

\* C16, with the expiry taken into account: the mappings are equal when the
\* persisted cache is fresh at both calls or at neither
C16_LoadTwiceEqualUnlessExpiredBetween ==
    [][(loads >= 1 /\ cache_op' = "load") =>
          /\ (EarlierLoadHit <=> LoadHits(cache_file, timestamp_file, now))
                => user_cache' = user_cache
          /\ UNCHANGED <<cache_file, timestamp_file>>]_vars

\* a second load has returned the populated mapping the first returned
C16_Witness ==
    /\ loads = 2
    /\ cache_op = "load"
    /\ user_cache # SentinelOnly

(***************************************************************************)
(* C17: get_all_users sends a user-listing request exactly when it is      *)
(* called with use_cache false or load_user_cache gives no entry besides   *)
(* the placeholder.  With use_cache false it builds the map from the       *)
(* listing however fresh the saved cache is; with a fresh cache that has   *)
(* users and use_cache true it sends no user-listing request.              *)
(* (In SpecUsers the clock stands still and only load_user_cache assigns   *)
(* user_cache, so user_cache is what a load at the call gives.)            *)
(***************************************************************************)
UsersRequested == \E p \in 1..MaxPages : <<"users", p>> \in DOMAIN issued

LoadGivesNoUser == Cardinality(DOMAIN user_cache) <= 1

C17_UsersRequestedIffBypassOrEmptyCache ==
    /\ usr_pc = "fetch" => (~use_cache \/ LoadGivesNoUser)
    /\ usr_pc = "done" =>
          /\ UsersRequested <=> (~use_cache \/ LoadGivesNoUser)
          /\ UsersRequested => <<"users", 1>> \in DOMAIN issued
          /\ (~use_cache /\ \A p \in DOMAIN user_pages : user_pages[p].status # "exc")
                => user_map = BuildUserMap(SentinelOnly, all_users)
          /\ (use_cache /\ ~LoadGivesNoUser) => user_map = user_cache

\* the saved cache is fresh and has a user, use_cache is false, and the map
\* was built from the listing that was requested
C17_Witness ==
    /\ usr_pc = "done"
    /\ ~use_cache
    /\ ~LoadGivesNoUser
    /\ <<"users", 1>> \in DOMAIN issued
    /\ all_users # <<>>
    /\ user_map = BuildUserMap(SentinelOnly, all_users)

(***************************************************************************)
(* SpecFormat: format_ticket_for_export on one ticket, reached through     *)
(* process_tickets_in_parallel, for every sequence of at most MaxComments  *)
(* comments and for user maps with and without the comments' authors.      *)
(***************************************************************************)
MaxComments == 2

Comments == {CommentA, CommentB, CommentC}

CommentSeqs == {<<>>} \cup SeqsUpTo(Comments, MaxComments)

FormatUserMaps ==
    {SentinelOnly,
     BuildUserMap(SentinelOnly, <<UserAnn>>),
     BuildUserMap(SentinelOnly, <<UserAnn, UserTwelve>>)}

InitFormatSpec ==
    /\ detail_resp = [t \in {1} |-> [status |-> "ok", ticket |-> t]]
    /\ \E cs \in CommentSeqs :
          comments_resp = [t \in {1} |-> [status |-> "ok", comments |-> cs]]
    /\ user_map \in FormatUserMaps
    /\ created = TicketsOfRunWindow
    /\ ticket_pages = <<>> /\ user_pages = <<>> /\ bulk_resp = <<>>
    /\ tickets = <<1>>
    /\ par_pc = "idle" /\ par_i = 0 /\ task = <<>> /\ processed_tickets = <<>>
    /\ use_cache = TRUE /\ usr_pc = "done" /\ usr_page = 0 /\ all_users = <<>>
    /\ InitTracker /\ now = 0 /\ NoFiles /\ InitCacheGlobals /\ issued = NoRequests
    /\ InitLst /\ InitBulk /\ InitRun

SpecFormat == InitFormatSpec /\ [][NextParallel]_vars

(***************************************************************************)
(* C20: all_comments is "No comments found." exactly when there is no      *)
(* comment; otherwise it holds one block for each comment, in the order of *)
(* the comments, tagged INTERNAL when the comment's public flag is false   *)
(* and PUBLIC otherwise, with the name and email of the author's entry in  *)
(* the user map, or of the placeholder entry when the map has no entry for *)
(* the author.  (A block is thirteen strings, and "\n" between blocks.)    *)
(***************************************************************************)
\* the identity the statement resolves the author of comment c to
ResolvedAuthor(c) ==
    IF "author_id" \in DOMAIN c /\ c.author_id \in DOMAIN user_map
    THEN user_map[c.author_id]
    ELSE user_map[None]

\* the tag the statement gives comment c
StatedTag(c) ==
    IF "public" \in DOMAIN c /\ c.public = FALSE THEN "INTERNAL" ELSE "PUBLIC"

C20_OneBlockPerCommentInOrder ==
    (par_pc = "done" /\ processed_tickets # <<>>) =>
        LET comments == comments_resp[1].comments
            text == processed_tickets[1].all_comments
            n == Len(comments)
        IN  /\ (text = <<"No comments found.">>) <=> (n = 0)
            /\ n > 0 =>
                  /\ Len(text) = 14 * n - 1
                  /\ \A i \in 1..n :
                        LET c == comments[i]
                            at == 14 * (i - 1)
                        IN  /\ text[at + 2] = StatedTag(c)
                            /\ text[at + 4] = ResolvedAuthor(c).name
                            /\ text[at + 6] = ResolvedAuthor(c).email
                            /\ text[at + 8] = Get(c, "created_at", "Unknown date")
                            /\ text[at + 10] = Strip(c.body)
                            /\ text[at + 12] = Dashes
                            /\ i < n => text[at + 14] = "\n"

\* an internal comment of an author the map does not know comes second, after
\* a public comment of an author it knows
C20_Witness ==
    /\ par_pc = "done"
    /\ processed_tickets # <<>>
    /\ comments_resp[1].comments = <<CommentA, CommentB>>
    /\ 1 \in DOMAIN user_map
    /\ processed_tickets[1].all_comments[16] = "INTERNAL"
    /\ processed_tickets[1].all_comments[18] = Sentinel.name

(***************************************************************************)
(* SpecWindows: three calls of retrieve_tickets, one after the other: for  *)
(* the window of a month, for the window of the month after it, and for    *)
(* the window from the start of the first to the end of the second.  The   *)
(* windows are the ones get_previous_month_range gives on the dates of     *)
(* RunDates; upstream, the tickets were created at or next to the ends of  *)
(* those windows, and every page request succeeds.                         *)
(***************************************************************************)
RunDates ==
    {DateTime(2024, 1, 3, 8, 30, 0), DateTime(2024, 2, 29, 23, 59, 59),
     DateTime(2024, 3, 15, 9, 0, 0), DateTime(2024, 4, 30, 0, 0, 0),
     DateTime(2023, 3, 31, 12, 0, 0), DateTime(2023, 4, 1, 0, 0, 0)}

MonthWindows == {get_previous_month_range(d) : d \in RunDates}

CreationTimes ==
    {<<2023, 11, 30, 23, 59, 59>>, <<2023, 12, 1, 0, 0, 0>>,
     <<2023, 12, 31, 23, 59, 59>>, <<2024, 1, 1, 0, 0, 0>>,
     <<2024, 1, 31, 12, 0, 0>>, <<2024, 2, 29, 23, 59, 59>>,
     <<2024, 3, 1, 0, 0, 0>>, <<2023, 2, 28, 23, 59, 59>>,
     <<2023, 3, 1, 0, 0, 0>>, <<2023, 3, 31, 0, 0, 1>>}

WindowTicketPages ==
    {<<[status |-> "ok", tickets |-> <<1, 2, 3>>]>>,
     <<[status |-> "ok", tickets |-> <<3>>], [status |-> "ok", tickets |-> <<2, 1>>]>>}

\* the second after instant d
NextSecond(d) ==
    CASE d.second < 59 -> [d EXCEPT !.second = @ + 1]
      [] d.minute < 59 -> [d EXCEPT !.minute = @ + 1, !.second = 0]
      [] d.hour < 23 -> [d EXCEPT !.hour = @ + 1, !.minute = 0, !.second = 0]
      [] d.day < DaysInMonth(d.year, d.month) ->
             DateTime(d.year, d.month, d.day + 1, 0, 0, 0)
      [] d.month < 12 -> DateTime(d.year, d.month + 1, 1, 0, 0, 0)
      [] OTHER -> DateTime(d.year + 1, 1, 1, 0, 0, 0)

\* window w2 starts with the second after the last one of window w1
Adjacent(w1, w2) == NextSecond(w1.end_date) = w2.start_date

InitWindowsSpec ==
    /\ ticket_pages \in WindowTicketPages
    /\ created \in [1..3 -> CreationTimes]
    /\ user_pages = <<>> /\ bulk_resp = <<>> /\ detail_resp = <<>> /\ comments_resp = <<>>
    /\ InitTracker /\ now = 0 /\ NoFiles /\ InitCacheGlobals /\ issued = NoRequests
    /\ InitLst /\ InitUsr /\ InitBulk /\ InitPar /\ InitRun

WindowsFirstCall ==
    /\ Len(lst_calls) = 0
    /\ \E w \in MonthWindows : retrieve_tickets_call(w.start_date, w.end_date)
    /\ UNCHANGED runVars

WindowsSecondCall ==
    /\ Len(lst_calls) = 1
    /\ \E w \in MonthWindows :
          /\ Adjacent(lst_calls[1], w)
          /\ retrieve_tickets_call(w.start_date, w.end_date)
    /\ UNCHANGED runVars

WindowsThirdCall ==
    /\ Len(lst_calls) = 2
    /\ retrieve_tickets_call(lst_calls[1].start_date, lst_calls[2].end_date)
    /\ UNCHANGED runVars

NextWindows == WindowsFirstCall \/ WindowsSecondCall \/ WindowsThirdCall \/ ListFetch

SpecWindows == InitWindowsSpec /\ [][NextWindows]_vars

(***************************************************************************)
(* C18: for adjacent windows W1 and W2 that do not overlap, the tickets    *)
(* retrieve_tickets returns for W1 together with those it returns for W2   *)
(* are exactly those it returns for the window from the start of W1 to the *)
(* end of W2: a ticket created at the boundary is returned once, none is   *)
(* missed; both ends of a window are included.                             *)
(***************************************************************************)
\* the tickets upstream that were created in the window of call c, its first
\* and its last second included
CreatedInWindowOf(c) ==
    {t \in DOMAIN created :
        /\ NotAfter(isoformat(c.start_date), created[t])
        /\ NotAfter(created[t], isoformat(c.end_date))}

C18_AdjacentWindowsPartitionTheListing ==
    (Len(lst_calls) = 3 /\ lst_calls[3].returned) =>
        LET first == lst_calls[1].tickets
            second == lst_calls[2].tickets
            both == lst_calls[3].tickets
        IN  /\ Adjacent(lst_calls[1], lst_calls[2])
            /\ SeqRange(first) \cap SeqRange(second) = {}
            /\ SeqRange(first) \cup SeqRange(second) = SeqRange(both)
            /\ Len(first) + Len(second) = Len(both)
            /\ \A k \in 1..3 : SeqRange(lst_calls[k].tickets) = CreatedInWindowOf(lst_calls[k])

\* one ticket was created in the last second of W1 and one in the first
\* second of W2; each was returned for its window and both for the union
C18_Witness ==
    /\ Len(lst_calls) = 3
    /\ lst_calls[3].returned
    /\ \E t1, t2 \in DOMAIN created :
          /\ created[t1] = isoformat(lst_calls[1].end_date)
          /\ created[t2] = isoformat(lst_calls[2].start_date)
          /\ t1 \in SeqRange(lst_calls[1].tickets)
          /\ t2 \in SeqRange(lst_calls[2].tickets)
          /\ {t1, t2} \subseteq SeqRange(lst_calls[3].tickets)

(***************************************************************************)
(* C21: save_user_cache is called only by a rebuild that fetched every     *)
(* page of the user listing: a rebuild that a failed page request ends     *)
(* does not save the users of the pages fetched before it, so the saved    *)
(* cache never holds a part of the listing.                                *)
(***************************************************************************)
\* the call of get_all_users has saved the map it built
RebuildSaved == cache_op = "save"

C21_FailedRebuildSavesNothing ==
    (usr_pc = "done" /\ UserFetchFailed) => ~RebuildSaved

\* the same for page requests that raise
RaisedRebuildSavesNothing ==
    (usr_pc = "done" /\ \E p \in DOMAIN user_pages :
          <<"users", p>> \in DOMAIN issued /\ user_pages[p].status = "exc")
       => ~RebuildSaved

(***************************************************************************)
(* SpecRequests: every operation that sends requests: a run of             *)
(* run_async_export, or, on its own, a call of get_bulk_ticket_comments    *)
(* (which the run does not call).                                          *)
(***************************************************************************)
InitRequestsSpec == InitRunSpec \/ InitBulkSpec

BulkAlone == run_pc = "idle" /\ NextBulk

NextRequests == NextRun \/ BulkAlone

SpecRequests == InitRequestsSpec /\ [][NextRequests]_vars

(***************************************************************************)
(* C22: no request is sent twice: each page of the ticket listing, each    *)
(* page of the user listing, each show_many group, each ticket-detail and  *)
(* each ticket-comments request is issued at most once, also when it was   *)
(* answered with a failure.                                                *)
(***************************************************************************)
C22_EachRequestIssuedAtMostOnce ==
    \A r \in DOMAIN issued : issued[r] <= 1

\* the answer to request r, issued already, was a failure
FailedRequest(r) ==
    /\ r \in DOMAIN issued
    /\ CASE r[1] = "tickets" -> ticket_pages[r[2]].status # "ok"
         [] r[1] = "users" -> user_pages[r[2]].status # "ok"
         [] r[1] = "show_many" -> bulk_resp[r[2]].status # "ok"
         [] r[1] = "detail" -> detail_resp[r[2]].status # "ok"
         [] r[1] = "comments" -> comments_resp[r[2]].status # "ok"

\* the operation has ended after a request of it failed, and it went on to
\* further requests after the failure
C22_Witness ==
    \/ /\ bulk_pc = "done"
       /\ FailedRequest(<<"show_many", 1>>)
       /\ <<"show_many", 2>> \in DOMAIN issued
    \/ /\ run_pc = "done"
       /\ \E t \in DOMAIN detail_resp :
             FailedRequest(<<"detail", t>>) \/ FailedRequest(<<"comments", t>>)

(***************************************************************************)
(* C23: in every run get_all_users has returned before any ticket is       *)
(* formatted, and from the call of process_tickets_in_parallel to the end  *)
(* of the run the user map and the two cache files are not modified.       *)
(***************************************************************************)
\* process_tickets_in_parallel has been called
CommentFetchingBegun == par_pc # "idle"

\* a task has formatted a ticket
SomeTicketFormatted ==
    \/ processed_tickets # <<>>
    \/ \E i \in DOMAIN task : task[i].processed # <<>>

C23_UserMapReadOnlyWhileProcessing ==
    /\ [](SomeTicketFormatted \/ CommentFetchingBegun => usr_pc = "done")
    /\ [][CommentFetchingBegun =>
             UNCHANGED <<user_map, user_cache, cache_file, timestamp_file>>]_vars

\* the run has ended with tickets formatted, with a user map that was built
\* from the listing and saved before
C23_Witness ==
    /\ run_pc = "done"
    /\ processed_tickets # <<>>
    /\ user_map # SentinelOnly
    /\ cache_op = "save"

\* the place of ticket id t in the listing handed to process_tickets_in_parallel
PositionOf(t) == CHOOSE k \in DOMAIN tickets : tickets[k] = t

\* the aggregated result is extended, or the loop of line 525 goes on
MergeStep == processed_tickets' # processed_tickets \/ par_i' # par_i

\* C24: in the concurrent strategy the aggregated result is extended only in
\* a step taken when every task of the current chunk (at most
\* MAX_CONCURRENT_REQUESTS of them) has returned; while a chunk is gathered
\* no task of a later chunk has started and every task of an earlier one has
\* returned; and the merged rows are in the order of the listed tickets.
C24_MergeAfterWholeChunkInOrder ==
    /\ [][(par_pc = "gather" /\ MergeStep) =>
             /\ Cardinality(CurrentChunk) <= MAX_CONCURRENT_REQUESTS
             /\ \A i \in CurrentChunk : task[i].pc = "returned"
             /\ \A i \in DOMAIN task : ~(i \in CurrentChunk) => task'[i].pc = task[i].pc]_vars
    /\ [](par_pc = "gather" =>
             \A i \in DOMAIN task :
                 /\ i > par_i + MAX_CONCURRENT_REQUESTS => task[i].pc = "created"
                 /\ i <= par_i => task[i].pc = "returned")
    /\ [](\A r1, r2 \in DOMAIN processed_tickets :
             r1 < r2 => PositionOf(processed_tickets[r1].id)
                            < PositionOf(processed_tickets[r2].id))

\* C24: the first chunk of MAX_CONCURRENT_REQUESTS tasks has been merged with
\* all its tickets and a task of the second chunk is running
C24_Witness ==
    /\ par_pc = "gather"
    /\ par_i = MAX_CONCURRENT_REQUESTS
    /\ Len(processed_tickets) = MAX_CONCURRENT_REQUESTS * batch_size
    /\ \E i \in CurrentChunk : task[i].pc \in {"detail", "comments"}

(***************************************************************************)
(* SpecConcurrentRecord: track_api_call (monitoring.py lines 43-59) run by *)
(* several callers at once.  The function takes no lock, and each          *)
(* "api_calls[k] += 1" reads the count, adds one and stores the sum as     *)
(* separate steps between which another caller may run; list.append is     *)
(* one step.                                                               *)
(***************************************************************************)
\* the call is made; its first statement is the "+= 1" of line 52 or 55
record_call(w, category, t) ==
    /\ writer[w].pc = "idle"
    /\ writer' = [writer EXCEPT ![w] =
                      [pc |-> "load", category |-> category, t |-> t, read |-> 0]]
    /\ UNCHANGED <<api_calls, api_timing, tracker_op>>

\* lines 52, 55: the "+= 1" reads the count of the bucket
record_load(w) ==
    /\ writer[w].pc = "load"
    /\ writer' = [writer EXCEPT ![w].pc = "store",
                                ![w].read = api_calls[TrackedBucket(api_calls, writer[w].category)]]
    /\ UNCHANGED <<api_calls, api_timing, tracker_op>>

\* lines 52, 55: the "+= 1" stores the count it read, plus one
record_store(w) ==
    /\ writer[w].pc = "store"
    /\ api_calls' = [api_calls EXCEPT ![TrackedBucket(api_calls, writer[w].category)] =
                                          writer[w].read + 1]
    /\ writer' = [writer EXCEPT ![w].pc = "append"]
    /\ UNCHANGED <<api_timing, tracker_op>>

\* lines 53, 56
record_append(w) ==
    /\ writer[w].pc = "append"
    /\ api_timing' = [api_timing EXCEPT ![TrackedBucket(api_calls, writer[w].category)] =
                                            Append(@, writer[w].t)]
    /\ writer' = [writer EXCEPT ![w].pc = "load_total"]
    /\ UNCHANGED <<api_calls, tracker_op>>

\* line 58: the "+= 1" reads the count of "total"
record_load_total(w) ==
    /\ writer[w].pc = "load_total"
    /\ writer' = [writer EXCEPT ![w].pc = "store_total", ![w].read = api_calls["total"]]
    /\ UNCHANGED <<api_calls, api_timing, tracker_op>>

\* line 58: the "+= 1" stores the count it read, plus one
record_store_total(w) ==
    /\ writer[w].pc = "store_total"
    /\ api_calls' = [api_calls EXCEPT !["total"] = writer[w].read + 1]
    /\ writer' = [writer EXCEPT ![w].pc = "append_total"]
    /\ UNCHANGED <<api_timing, tracker_op>>

\* line 59, and the return
record_append_total(w) ==
    /\ writer[w].pc = "append_total"
    /\ api_timing' = [api_timing EXCEPT !["total"] = Append(@, writer[w].t)]
    /\ writer' = [writer EXCEPT ![w].pc = "returned"]
    /\ tracker_op' = [name |-> "record", category |-> writer[w].category,
                      t |-> writer[w].t, cleared |-> 0]
    /\ UNCHANGED api_calls

RecordUnchanged ==
    UNCHANGED <<start_time, recorded, now, cacheVars, issued, upstreamVars, lstVars,
                usrVars, bulkVars, parVars, runVars>>

RecordCall ==
    /\ \E w \in Writers, category \in CategoryArgs, t \in Durations :
           record_call(w, category, t)
    /\ RecordUnchanged
RecordLoad == (\E w \in Writers : record_load(w)) /\ RecordUnchanged
RecordStore == (\E w \in Writers : record_store(w)) /\ RecordUnchanged
RecordAppend == (\E w \in Writers : record_append(w)) /\ RecordUnchanged
RecordLoadTotal == (\E w \in Writers : record_load_total(w)) /\ RecordUnchanged
RecordStoreTotal == (\E w \in Writers : record_store_total(w)) /\ RecordUnchanged
RecordAppendTotal == (\E w \in Writers : record_append_total(w)) /\ RecordUnchanged

NextConcurrentRecord ==
    \/ RecordCall \/ RecordLoad \/ RecordStore \/ RecordAppend
    \/ RecordLoadTotal \/ RecordStoreTotal \/ RecordAppendTotal

SpecConcurrentRecord == InitTrackerSpec /\ [][NextConcurrentRecord]_vars

\* the track_api_call calls that have returned and counted in bucket c
CallsMadeFor(c) ==
    {w \in Writers : writer[w].pc = "returned"
                     /\ TrackedBucket(api_calls, writer[w].category) = c}

AllWritersReturned == \A w \in Writers : writer[w].pc = "returned"

\* C25: track_api_call is safe under concurrent callers: once the calls,
\* however their read-modify-write steps interleaved, have all returned, the
\* count and the number of timings of every category other than "total"
\* equal the number of calls made for it, and the count of "total" equals
\* the sum of the other counts (calls whose argument is "total" itself set
\* aside).  Two calls that both read a count before either stores it refute
\* this: one increment is lost.
C25_NoIncrementLostUnderInterleaving ==
    (AllWritersReturned /\ \A w \in Writers : writer[w].category # "total") =>
        /\ \A c \in Categories \ {"total"} :
              /\ api_calls[c] = Cardinality(CallsMadeFor(c))
              /\ Len(api_timing[c]) = Cardinality(CallsMadeFor(c))
        /\ api_calls["total"] = SumOver(api_calls, Categories \ {"total"})
        /\ Len(api_timing["total"]) = Cardinality(Writers)

\* no timing entry is lost, list.append being a single step
TimingEntriesKept ==
    (AllWritersReturned /\ \A w \in Writers : writer[w].category # "total") =>
        /\ Len(api_timing["total"]) = Cardinality(Writers)
        /\ \A c \in Categories \ {"total"} :
              Len(api_timing[c]) = Cardinality(CallsMadeFor(c))

(***************************************************************************)
(* SpecRoundTrip: the saves and loads of SpecCache on a clock that reads   *)
(* more than 0.0 (time.time() counts the seconds since 1970), with the     *)
(* files absent at the start, left by an earlier save, or one of them      *)
(* missing.                                                                *)
(***************************************************************************)
InitRoundTripSpec ==
    /\ InitCacheSpec
    /\ now > 0
    /\ persisted.saved => persisted.saved_at > 0

SpecRoundTrip == InitRoundTripSpec /\ [][NextCache]_vars

\* a load has been called after a save_user_cache that ran to its end, less
\* than USER_CACHE_EXPIRY seconds after it
LoadedWithinValidity ==
    /\ cache_op \in {"load", "load_raised"}
    /\ persisted.complete
    /\ now - persisted.saved_at < USER_CACHE_EXPIRY

\* C26: round trip.  For every mapping m with integer user ids and the None
\* key, a load_user_cache that follows save_user_cache(m) within the 24 hours
\* returns a mapping equal to m (the same keys, the None key included, each
\* with the same name and email), whatever was persisted before the save.
C26_SaveThenLoadReturnsTheMapping ==
    LoadedWithinValidity =>
        /\ cache_op = "load"
        /\ DOMAIN user_cache = DOMAIN persisted.mapping
        /\ None \in DOMAIN user_cache
        /\ \A k \in DOMAIN user_cache : user_cache[k] = persisted.mapping[k]

\* C26: a mapping with users, saved over a different one, has been loaded
\* back after the clock moved on
C26_Witness ==
    /\ LoadedWithinValidity
    /\ persisted.previous # persisted.mapping
    /\ Cardinality(DOMAIN persisted.mapping) > 2
    /\ user_cache = persisted.mapping
    /\ now > persisted.saved_at

====
